---- MODULE Spec2Model ----
(***************************************************************************)
(* RateIt: entity resolution (addUniversity), the review-driven stats and  *)
(* sentiment triggers, the chat response caches, and the candidate ranking *)
(* of global queries (preRankUniversities).                                *)
(*                                                                         *)
(* Text is a sequence of one-character strings.  Time is counted in hours. *)
(* The database is the one obtained from schema.sql, the AI-optimisation   *)
(* migrations and optimize_db.sql.                                         *)
(***************************************************************************)
EXTENDS Integers, Sequences, FiniteSets, TLC

\* ------------------------------------------------------------------------
\* Characters
\* ------------------------------------------------------------------------
LowerAlpha ==
    <<"a", "b", "c", "d", "e", "f", "g", "h", "i", "j", "k", "l", "m",
      "n", "o", "p", "q", "r", "s", "t", "u", "v", "w", "x", "y", "z">>

UpperAlpha ==
    <<"A", "B", "C", "D", "E", "F", "G", "H", "I", "J", "K", "L", "M",
      "N", "O", "P", "Q", "R", "S", "T", "U", "V", "W", "X", "Y", "Z">>

Digits == <<"0", "1", "2", "3", "4", "5", "6", "7", "8", "9">>

IndexOf(c, alpha) ==
    IF \E i \in 1..Len(alpha) : alpha[i] = c
    THEN CHOOSE i \in 1..Len(alpha) : alpha[i] = c
    ELSE 0

IsLower(c) == IndexOf(c, LowerAlpha) > 0
IsUpper(c) == IndexOf(c, UpperAlpha) > 0
IsDigit(c) == IndexOf(c, Digits) > 0
IsSpace(c) == c = " "
\* JavaScript \w
IsWordChar(c) == IsLower(c) \/ IsUpper(c) \/ IsDigit(c) \/ c = "_"
\* pg_trgm word character (alphanumeric only)
IsAlnum(c) == IsLower(c) \/ IsUpper(c) \/ IsDigit(c)
IsAscii(c) == IsWordChar(c) \/ c \in {" ", "-", ".", ",", "'", "!", "?", "&"}

LowerChar(c) == IF IsUpper(c) THEN LowerAlpha[IndexOf(c, UpperAlpha)] ELSE c
UpperChar(c) == IF IsLower(c) THEN UpperAlpha[IndexOf(c, LowerAlpha)] ELSE c

\* String.prototype.charCodeAt for the characters above
CharCode(c) ==
    IF IsLower(c) THEN 96 + IndexOf(c, LowerAlpha)
    ELSE IF IsUpper(c) THEN 64 + IndexOf(c, UpperAlpha)
    ELSE IF IsDigit(c) THEN 47 + IndexOf(c, Digits)
    ELSE IF c = " " THEN 32
    ELSE IF c = "!" THEN 33
    ELSE IF c = "&" THEN 38
    ELSE IF c = "'" THEN 39
    ELSE IF c = "," THEN 44
    ELSE IF c = "-" THEN 45
    ELSE IF c = "." THEN 46
    ELSE IF c = "?" THEN 63
    ELSE IF c = "_" THEN 95
    ELSE 233

\* ------------------------------------------------------------------------
\* String helpers (JavaScript String methods)
\* ------------------------------------------------------------------------
toLowerCase(s) == [i \in 1..Len(s) |-> LowerChar(s[i])]
toUpperCase(s) == [i \in 1..Len(s) |-> UpperChar(s[i])]

RECURSIVE TrimLeft(_)
TrimLeft(s) ==
    IF s = <<>> THEN <<>>
    ELSE IF IsSpace(Head(s)) THEN TrimLeft(Tail(s)) ELSE s

RECURSIVE TrimRight(_)
TrimRight(s) ==
    IF s = <<>> THEN <<>>
    ELSE IF IsSpace(s[Len(s)]) THEN TrimRight(SubSeq(s, 1, Len(s) - 1)) ELSE s

trim(s) == TrimRight(TrimLeft(s))

\* s.replace(/[^\w\s-]/g, '')
StripSpecial(s) == SelectSeq(s, LAMBDA c : IsWordChar(c) \/ IsSpace(c) \/ c = "-")

\* s.replace(/-/g, ' ')
HyphensToSpaces(s) == [i \in 1..Len(s) |-> IF s[i] = "-" THEN " " ELSE s[i]]

\* Character classes used by the regular expressions and by pg_trgm
InClass(c, cls) ==
    CASE cls = "word" -> IsWordChar(c)
      [] cls = "space" -> IsSpace(c)
      [] cls = "alnum" -> IsAlnum(c)

\* Length of the maximal prefix of s whose characters are in class cls
RECURSIVE RunLength(_, _)
RunLength(s, cls) ==
    IF s = <<>> THEN 0
    ELSE IF ~InClass(Head(s), cls) THEN 0
    ELSE 1 + RunLength(Tail(s), cls)

STOP_WORDS == {
    <<"u", "n", "i", "v", "e", "r", "s", "i", "t", "y">>,
    <<"c", "o", "l", "l", "e", "g", "e">>,
    <<"i", "n", "s", "t", "i", "t", "u", "t", "e">>,
    <<"s", "c", "h", "o", "o", "l">>,
    <<"a", "c", "a", "d", "e", "m", "y">>,
    <<"o", "f">>,
    <<"t", "h", "e">>,
    <<"i", "n">>,
    <<"a", "t">>,
    <<"f", "o", "r">>,
    <<"a", "n", "d">>,
    <<"i", "n", "t", "e", "r", "n", "a", "t", "i", "o", "n", "a", "l">>,
    <<"n", "a", "t", "i", "o", "n", "a", "l">>,
    <<"s", "t", "a", "t", "e">>,
    <<"f", "e", "d", "e", "r", "a", "l">>,
    <<"p", "u", "b", "l", "i", "c">>,
    <<"p", "r", "i", "v", "a", "t", "e">>,
    <<"h", "i", "g", "h", "e", "r">>,
    <<"e", "d", "u", "c", "a", "t", "i", "o", "n">>,
    <<"l", "e", "a", "r", "n", "i", "n", "g">>,
    <<"s", "t", "u", "d", "i", "e", "s">> }

\* s.replace(/\b(stop|words)\b/gi, ''): a match is a maximal run of \w
\* characters (both ends are word boundaries) that spells a stop word.
RECURSIVE RemoveStopWords(_)
RemoveStopWords(s) ==
    IF s = <<>> THEN <<>>
    ELSE IF IsWordChar(Head(s))
         THEN LET n == RunLength(s, "word")
                  w == SubSeq(s, 1, n)
                  rest == SubSeq(s, n + 1, Len(s))
              IN  (IF toLowerCase(w) \in STOP_WORDS THEN <<>> ELSE w)
                      \o RemoveStopWords(rest)
         ELSE <<Head(s)>> \o RemoveStopWords(Tail(s))

\* s.replace(/\s+/g, ' ')
RECURSIVE CollapseSpaces(_)
CollapseSpaces(s) ==
    IF s = <<>> THEN <<>>
    ELSE IF IsSpace(Head(s))
         THEN LET n == RunLength(s, "space")
              IN  <<" ">> \o CollapseSpaces(SubSeq(s, n + 1, Len(s)))
         ELSE <<Head(s)>> \o CollapseSpaces(Tail(s))

\* geminiService.js basicNormalize
basicNormalize(text) ==
    IF text = <<>> THEN <<>>
    ELSE trim(CollapseSpaces(RemoveStopWords(HyphensToSpaces(
             StripSpecial(toLowerCase(text))))))

KNOWN_ACRONYMS == {
    <<"a", "u", "i">>, <<"m", "i", "t">>, <<"u", "o", "n">>,
    <<"w", "i", "u", "t">>, <<"a", "k", "u">>, <<"u", "s", "i", "u">>,
    <<"k", "e", "m", "u">>, <<"j", "k", "u", "a", "t">>, <<"e", "m", "u">>,
    <<"l", "s", "u">>, <<"u", "c", "l", "a">>, <<"n", "y", "u">>,
    <<"u", "s", "c">>, <<"u", "c", "b">>, <<"u", "n", "c">>,
    <<"u", "t">>, <<"u", "m">>, <<"b", "u">>, <<"b", "c">> }

AMBIGUOUS_LENGTH_THRESHOLD == 5

\* /^[A-Z](\.[A-Z])+\.?$/
RECURSIVE DottedTail(_)
DottedTail(s) ==
    \/ s = <<>>
    \/ s = <<".">>
    \/ /\ Len(s) >= 2
       /\ s[1] = "."
       /\ IsUpper(s[2])
       /\ DottedTail(SubSeq(s, 3, Len(s)))

IsInitialism(s) ==
    /\ Len(s) >= 3
    /\ IsUpper(s[1])
    /\ s[2] = "."
    /\ IsUpper(s[3])
    /\ DottedTail(SubSeq(s, 4, Len(s)))

\* geminiService.js isAmbiguousInput
isAmbiguousInput(text) ==
    LET normalized == toLowerCase(trim(text))
    IN  \/ Len(normalized) <= 2
        \/ normalized \in KNOWN_ACRONYMS
        \/ (text = toUpperCase(text) /\ Len(text) <= AMBIGUOUS_LENGTH_THRESHOLD)
        \/ \E i \in 1..Len(text) : ~IsAscii(text[i])
        \/ IsInitialism(trim(text))

\* ------------------------------------------------------------------------
\* hashQuery: 32-bit rolling hash, absolute value, hexadecimal.  A 32-bit
\* word is kept as <<high 16 bits, low 16 bits>>; the hexadecimal text is a
\* one-to-one rendering of the absolute value, which is what is kept.
\* ------------------------------------------------------------------------
Half == 65536

\* ((hash << 5) - hash) + char, truncated to 32 bits by (hash & hash)
HashStep(h, code) ==
    LET lo == 31 * h[2] + code
        hi == 31 * h[1] + (lo \div Half)
    IN  <<hi % Half, lo % Half>>

RECURSIVE HashFold(_, _)
HashFold(h, s) ==
    IF s = <<>> THEN h ELSE HashFold(HashStep(h, CharCode(Head(s))), Tail(s))

\* Math.abs of the signed reading of a 32-bit word
Abs32(h) ==
    IF h[1] < 32768 THEN h
    ELSE IF h[2] = 0 THEN <<Half - h[1], 0>>
    ELSE <<Half - 1 - h[1], Half - h[2]>>

hashQuery(text) == Abs32(HashFold(<<0, 0>>, trim(toLowerCase(text))))

\* ------------------------------------------------------------------------
\* pg_trgm similarity(a, b)
\* ------------------------------------------------------------------------
RECURSIVE AlnumWords(_)
AlnumWords(s) ==
    IF s = <<>> THEN {}
    ELSE IF IsAlnum(Head(s))
         THEN LET n == RunLength(s, "alnum")
              IN  {SubSeq(s, 1, n)} \cup AlnumWords(SubSeq(s, n + 1, Len(s)))
         ELSE AlnumWords(Tail(s))

WordTrigrams(w) ==
    LET padded == <<" ", " ">> \o w \o <<" ">>
    IN  {SubSeq(padded, i, i + 2) : i \in 1..(Len(padded) - 2)}

Trigrams(s) == UNION {WordTrigrams(w) : w \in AlnumWords(toLowerCase(s))}

\* The score as the exact fraction num/den (0/1 when a side has no trigram)
similarity(a, b) ==
    LET ta == Trigrams(a)
        tb == Trigrams(b)
    IN  IF ta = {} \/ tb = {} THEN [num |-> 0, den |-> 1]
        ELSE [num |-> Cardinality(ta \cap tb), den |-> Cardinality(ta \cup tb)]

\* score > pct/100 and score >= pct/100
ScoreAbove(score, pct) == 100 * score.num > pct * score.den
ScoreAtLeast(score, pct) == 100 * score.num >= pct * score.den

\* ------------------------------------------------------------------------
\* Values
\* ------------------------------------------------------------------------
\* SQL NULL / JavaScript null and undefined: a text no real text equals
NULL == <<"NULL">>

\* JavaScript falsiness of a text-or-null value, and the a || b idiom
Falsy(x) == x = NULL \/ x = <<>>
OrElse(a, b) == IF Falsy(a) THEN b ELSE a

T_AlAkhawaynUniversity ==
    <<"A", "l", " ", "A", "k", "h", "a", "w", "a", "y", "n", " ",
      "U", "n", "i", "v", "e", "r", "s", "i", "t", "y">>
T_AUI == <<"A", "U", "I">>
T_al_akhawayn_hyphen == <<"a", "l", "-", "a", "k", "h", "a", "w", "a", "y", "n">>
T_AL_AKHAWAYN == <<"A", "L", " ", "A", "K", "H", "A", "W", "A", "Y", "N">>
T_University == <<"U", "n", "i", "v", "e", "r", "s", "i", "t", "y">>
T_Oxford == <<"O", "x", "f", "o", "r", "d">>
T_OxfordUK == <<"O", "x", "f", "o", "r", "d", " ", "U", "K">>
T_al_akhawayn == <<"a", "l", " ", "a", "k", "h", "a", "w", "a", "y", "n">>
T_AlAkhawayn == <<"A", "l", " ", "A", "k", "h", "a", "w", "a", "y", "n">>
T_aui == <<"a", "u", "i">>
T_oxford == <<"o", "x", "f", "o", "r", "d">>
T_Ifrane == <<"I", "f", "r", "a", "n", "e">>
T_Morocco == <<"M", "o", "r", "o", "c", "c", "o">>
T_Rabat == <<"R", "a", "b", "a", "t">>

\* Names submitted to POST /api/universities
InputNames ==
    {T_AUI, T_al_akhawayn_hyphen, T_AL_AKHAWAYN, T_University, T_Oxford, T_OxfordUK}

\* Request bodies accepted by the route (name, location and country present)
Requests ==
    {[name |-> n, location |-> T_Ifrane, country |-> T_Morocco] : n \in InputNames}

\* What one call of the reasoning service can do: no client configured, the
\* call throws, the reply holds no JSON object, or the reply parses to JSON.
AIReplies ==
    { [kind |-> "json", normalizedName |-> T_al_akhawayn,
       name |-> T_AlAkhawaynUniversity, location |-> NULL, country |-> NULL],
      [kind |-> "json", normalizedName |-> T_AlAkhawayn,
       name |-> T_AlAkhawayn, location |-> T_Rabat, country |-> T_Morocco],
      [kind |-> "json", normalizedName |-> <<>>,
       name |-> NULL, location |-> NULL, country |-> NULL] }

AIOutcomes ==
    { [kind |-> k, normalizedName |-> NULL, name |-> NULL,
       location |-> NULL, country |-> NULL] : k \in {"noclient", "throws", "nojson"} }
    \cup AIReplies

\* dataStore.js CONFIG, in hundredths
SIMILARITY_THRESHOLD == 70
SIMILARITY_THRESHOLD_LOW == 40

\* INTERVAL '7 days' and INTERVAL '24 hours', in hours
NORMALIZATION_TTL == 168
CHAT_TTL == 24

\* Bounds of the model
MaxCalls == 2
MaxTicks == 2
MaxInserts == 3
MaxRequests == 3
MaxRows == 2

\* A request field or statement parameter that may be absent (null)
Absent == [present |-> FALSE]
Given(v) == [present |-> TRUE, value |-> v]
Optional(S) == {Absent} \cup {Given(v) : v \in S}

\* COALESCE(arg, column)
COALESCE(arg, column) == IF arg.present THEN arg.value ELSE column

\* The text the model returned on its n-th invocation, and the fixed
\* messages returned in its place
GeneratedText(n) == [kind |-> "text", n |-> n]
Fallback(message) == [kind |-> message, n |-> 0]
NoResponse == Fallback("")

\* Before any chat request, before any direct cache read
NoChat ==
    [seq |-> 0,
     key |-> [universityId |-> Absent, query_hash |-> <<0, 0>>, region |-> NULL],
     status |-> 0, response |-> NoResponse, cached |-> FALSE,
     generated |-> FALSE, cacheFault |-> FALSE, dbFailed |-> FALSE, at |-> 0]

NoRead == [cache |-> "", at |-> 0, stored |-> FALSE, found |-> FALSE,
           expires_at |-> 0]

\* Before any addUniversity call.  ai: whether the reasoning service
\* replied with a JSON object or gave no result (no client, a throw, no
\* JSON in the reply).  client: whether PHASE 3 took a pooled
\* connection (getClient) and handed it back (finally { client.release() })
NoResolve == [ai |-> "failed", cacheReadOk |-> TRUE, cacheWriteOk |-> TRUE,
              txOk |-> TRUE, client |-> "none"]

\* No preRankUniversities call yet
NoRanking == [called |-> FALSE, queryText |-> <<>>, region |-> NULL, rows |-> <<>>]

\* ------------------------------------------------------------------------
\* State
\* ------------------------------------------------------------------------
VARIABLES
    now,                    \* NOW(), in hours
    universities,           \* table universities, in insertion order (id = index)
    university_aliases,     \* table university_aliases, in insertion order
    university_stats,       \* table university_stats, keyed by university_id
    countries,              \* table countries (names)
    locations,              \* table locations (<<name, country>>)
    ai_normalization_cache, \* table ai_normalization_cache (rows)
    calls,                  \* what each addUniversity call did and returned
    lastResolve,            \* what the awaited calls of the last one did
    race,                   \* the addUniversity invocations that run interleaved
    reviews,                \* table reviews (rows)
    reviewSeq,              \* reviews inserted so far (id and created_at order)
    chat_cache,             \* table chat_cache (rows)
    global_chat_cache,      \* table global_chat_cache, in insertion order
    chat_cache_unique,      \* whether idx_chat_cache_unique exists
    generations,            \* invocations of the answer generators so far
    lastChat,               \* the last POST /chat request and its response
    lastRead,               \* what the last direct cache read returned
    lastRanking,            \* the last preRankUniversities call and its rows
    inflight                \* the chat requests that run interleaved

resolveVars ==
    <<universities, university_aliases, countries, locations,
      ai_normalization_cache, calls, lastResolve, race>>
feedbackVars == <<reviews, reviewSeq>>
chatVars ==
    <<chat_cache, global_chat_cache, chat_cache_unique, generations, lastChat,
      lastRead, lastRanking, inflight>>

\* ------------------------------------------------------------------------
\* Similarity lookup
\* ------------------------------------------------------------------------
\* The texts that can be stored as a normalized name or looked up
KnownNorms ==
    {basicNormalize(n) : n \in InputNames \cup {T_AlAkhawaynUniversity}}
    \cup {r.normalizedName : r \in AIReplies}

\* similarity() over those texts, computed once
\* (the comparison makes the table an explicit function, evaluated once)
SimTable ==
    LET f == [p \in KnownNorms \X KnownNorms |-> similarity(p[1], p[2])]
    IN  IF f = f THEN f ELSE f

SimScore(u, q) == SimTable[<<u.normalized_name, q>>]

\* SimilarRows with the comparison of the WHERE clause reversed
SimilarRows_Reversed(unis, q, threshold) ==
    {i \in 1..Len(unis) : ~ScoreAtLeast(SimScore(unis[i], q), threshold)}

\* Rows selected by findSimilarWithConfidence's WHERE clause (ids)
SimilarRows(unis, q, threshold) ==
    {i \in 1..Len(unis) : ScoreAbove(SimScore(unis[i], q), threshold)}

\* The lookup returning no row whatever is stored
HasSimilar_Never(unis, q, threshold) == FALSE

\* findSimilarWithConfidence(q, threshold).length > 0
HasSimilar(unis, q, threshold) == SimilarRows(unis, q, threshold) # {}

\* The ids findSimilarWithConfidence(q, threshold)[0] can be: ORDER BY
\* sim_score DESC leaves the order of equal scores to the database.
FirstSimilar(unis, q, threshold) ==
    LET rows == SimilarRows(unis, q, threshold)
    IN  {i \in rows :
            \A j \in rows :
                SimScore(unis[j], q).num * SimScore(unis[i], q).den
                    <= SimScore(unis[i], q).num * SimScore(unis[j], q).den}

\* ------------------------------------------------------------------------
\* AI normalization cache
\* ------------------------------------------------------------------------
NoRow == [input_hash |-> <<0, 0>>, input_text |-> NULL, normalized_name |-> NULL,
          display_name |-> NULL, location |-> NULL, country |-> NULL,
          expires_at |-> 0]

\* getAINormalizationCache: the unexpired row of the hash, or null (NoRow);
\* a failing query is caught and yields null
getAINormalizationCache(cache, inputHash, t, readOk) ==
    LET rows == {r \in cache : r.input_hash = inputHash /\ r.expires_at > t}
    IN  IF readOk /\ rows # {} THEN CHOOSE r \in rows : TRUE ELSE NoRow

\* setAINormalizationCache with the conflicting row replaced as a whole
setAINormalizationCache_ReplacesRow(cache, inputHash, inputText, normalized, t, writeOk) ==
    IF ~writeOk THEN cache
    ELSE {r \in cache : r.input_hash # inputHash} \cup
         {[input_hash |-> inputHash, input_text |-> inputText,
           normalized_name |-> normalized.normalizedName,
           display_name |-> normalized.name,
           location |-> normalized.location, country |-> normalized.country,
           expires_at |-> t + NORMALIZATION_TTL]}

\* setAINormalizationCache: INSERT ... ON CONFLICT (input_hash) DO UPDATE;
\* a failing statement is caught and ignored
setAINormalizationCache(cache, inputHash, inputText, normalized, t, writeOk) ==
    IF ~writeOk THEN cache
    ELSE IF \E r \in cache : r.input_hash = inputHash
    THEN {IF r.input_hash = inputHash
          THEN [r EXCEPT !.normalized_name = normalized.normalizedName,
                         !.display_name = normalized.name,
                         !.expires_at = t + NORMALIZATION_TTL]
          ELSE r : r \in cache}
    ELSE cache \cup
         {[input_hash |-> inputHash, input_text |-> inputText,
           normalized_name |-> normalized.normalizedName,
           display_name |-> normalized.name,
           location |-> normalized.location, country |-> normalized.country,
           expires_at |-> t + NORMALIZATION_TTL]}

\* ------------------------------------------------------------------------
\* geminiService.js normalizeUniversityInput
\* ------------------------------------------------------------------------
\* Per submitted name: basicNormalize, isAmbiguousInput and the cache key,
\* computed once
NameFacts ==
    LET f == [n \in InputNames |->
                [norm |-> basicNormalize(n), ambiguous |-> isAmbiguousInput(n),
                 hash |-> hashQuery(trim(toLowerCase(n)))]]
    IN  IF f = f THEN f ELSE f

\* An environment choice the call does not consult is left at its default
DefaultAI == [kind |-> "noclient", normalizedName |-> NULL, name |-> NULL,
              location |-> NULL, country |-> NULL]

Deterministic(data) ==
    [normalizedName |-> NameFacts[data.name].norm, name |-> data.name,
     location |-> OrElse(data.location, NULL),
     country |-> OrElse(data.country, NULL), usedAI |-> FALSE]

\* normalizeUniversityInput with the catch block and the no-client branch
\* returning the deterministic fields marked usedAI: true
normalizeUniversityInput_MarksAI(data, ai) ==
    IF ~NameFacts[data.name].ambiguous THEN Deterministic(data)
    ELSE [normalizedName |-> OrElse(ai.normalizedName, NameFacts[data.name].norm),
          name |-> OrElse(ai.name, data.name),
          location |-> OrElse(ai.location, OrElse(data.location, NULL)),
          country |-> OrElse(ai.country, OrElse(data.country, NULL)),
          usedAI |-> TRUE]

normalizeUniversityInput(data, ai) ==
    IF ~NameFacts[data.name].ambiguous THEN Deterministic(data)
    ELSE IF ai.kind = "json"
    THEN [normalizedName |-> OrElse(ai.normalizedName, NameFacts[data.name].norm),
          name |-> OrElse(ai.name, data.name),
          location |-> OrElse(ai.location, OrElse(data.location, NULL)),
          country |-> OrElse(ai.country, OrElse(data.country, NULL)),
          usedAI |-> TRUE]
    ELSE Deterministic(data)

\* Whether normalizeUniversityInput reaches model.generateContent
CallsService(data, ai) == NameFacts[data.name].ambiguous /\ ai.kind # "noclient"

\* ------------------------------------------------------------------------
\* dataStore.js addAlias: INSERT ... ON CONFLICT DO NOTHING on a table whose
\* only unique key is the generated id; a failing statement is caught
\* ------------------------------------------------------------------------
addAlias(aliases, universityId, aliasName, normalizedAlias, ok) ==
    IF ok
    THEN Append(aliases, [university_id |-> universityId, alias_name |-> aliasName,
                          normalized_alias |-> normalizedAlias])
    ELSE aliases

\* ------------------------------------------------------------------------
\* dataStore.js addUniversity
\* ------------------------------------------------------------------------
\* Row inserted by INSERT INTO university_stats (university_id): the column
\* defaults, no sentiment summary yet
NoSample == [sentinel |-> "null", parts |-> <<>>]
NoSummary == [tone |-> "null", positivePhrases |-> NoSample,
              negativePhrases |-> NoSample, lastUpdated |-> 0]
EmptyStats == [total_reviews |-> 0, average_rating |-> 0,
               sentiment_summary |-> NoSummary]

\* The environment choices are the outcomes of the awaited calls; a choice
\* the invocation never consults is held at its default (the conjuncts on
\* ai, cacheReadOk, cacheWriteOk, aliasOk and txOk below).
CallRecord(data, outcome, id, normalized, serviceCalled, cacheHit, unisAfter) ==
    [input |-> data.name, outcome |-> outcome,
     isExisting |-> outcome \in {"phase1", "postAI", "low"},
     id |-> id, usedAI |-> normalized.usedAI,
     resolved |-> normalized.normalizedName,
     serviceCalled |-> serviceCalled, cacheHit |-> cacheHit,
     before |-> Len(universities), after |-> Len(unisAfter)]

\* return { ...candidate, isExisting: true } after the alias inserts
ReturnExisting(data, outcome, id, normalized, serviceCalled, cacheHit, cache, aliases) ==
    /\ university_aliases' = aliases
    /\ ai_normalization_cache' = cache
    /\ calls' = Append(calls, CallRecord(data, outcome, id, normalized,
                                         serviceCalled, cacheHit, universities))
    /\ UNCHANGED <<universities, university_stats, countries, locations>>
    /\ UNCHANGED <<feedbackVars, chatVars>>

\* PHASE 3 with the statements issued outside a transaction: the country
\* and location rows inserted before the failing statement stay
CreateUniversity_NoRollback(data, normalized, serviceCalled, cacheHit, cache, txOk) ==
    LET country == OrElse(normalized.country, data.country)
        hasCountry == ~Falsy(country)
        location == OrElse(normalized.location, data.location)
        hasLocation == ~Falsy(location) /\ hasCountry
        id == Len(universities) + 1
        row == [id |-> id, name |-> normalized.name,
                normalized_name |-> normalized.normalizedName,
                location |-> IF hasLocation THEN location ELSE NULL,
                country |-> IF hasLocation THEN country ELSE NULL]
    IN  /\ ai_normalization_cache' = cache
        /\ UNCHANGED university_aliases
        /\ UNCHANGED <<feedbackVars, chatVars>>
        /\ countries' = IF hasCountry THEN countries \cup {country} ELSE countries
        /\ locations' = IF hasLocation THEN locations \cup {<<location, country>>}
                        ELSE locations
        /\ IF txOk
           THEN /\ universities' = Append(universities, row)
                /\ university_stats' =
                       IF id \in DOMAIN university_stats THEN university_stats
                       ELSE university_stats @@ (id :> EmptyStats)
                /\ calls' = Append(calls,
                       CallRecord(data, "created", id, normalized, serviceCalled,
                                  cacheHit, Append(universities, row)))
           ELSE /\ UNCHANGED <<universities, university_stats>>
                /\ calls' = Append(calls,
                       CallRecord(data, "error", 0, normalized, serviceCalled,
                                  cacheHit, universities))

\* PHASE 3: the creation transaction.  txOk = FALSE is a statement of the
\* transaction failing: ROLLBACK, and the error is thrown to the caller.
CreateUniversity(data, normalized, serviceCalled, cacheHit, cache, txOk) ==
    LET country == OrElse(normalized.country, data.country)
        hasCountry == ~Falsy(country)
        location == OrElse(normalized.location, data.location)
        hasLocation == ~Falsy(location) /\ hasCountry
        id == Len(universities) + 1
        row == [id |-> id, name |-> normalized.name,
                normalized_name |-> normalized.normalizedName,
                location |-> IF hasLocation THEN location ELSE NULL,
                country |-> IF hasLocation THEN country ELSE NULL]
    IN  /\ ai_normalization_cache' = cache
        /\ UNCHANGED university_aliases
        /\ UNCHANGED <<feedbackVars, chatVars>>
        /\ IF txOk
           THEN /\ countries' = IF hasCountry THEN countries \cup {country}
                                ELSE countries
                /\ locations' = IF hasLocation
                                THEN locations \cup {<<location, country>>}
                                ELSE locations
                /\ universities' = Append(universities, row)
                /\ university_stats' =
                       IF id \in DOMAIN university_stats THEN university_stats
                       ELSE university_stats @@ (id :> EmptyStats)
                /\ calls' = Append(calls,
                       CallRecord(data, "created", id, normalized, serviceCalled,
                                  cacheHit, Append(universities, row)))
           ELSE /\ UNCHANGED <<countries, locations, universities, university_stats>>
                /\ calls' = Append(calls,
                       CallRecord(data, "error", 0, normalized, serviceCalled,
                                  cacheHit, universities))

\* PHASE 2 calling the reasoning service before the cache is consulted and
\* keeping its reply when it gave one
ResolveAmbiguous_ServiceFirst(data, ai, cacheReadOk, cacheWriteOk, aliasOk, txOk) ==
    \E facts \in {NameFacts[data.name]} :
    \E cached \in {getAINormalizationCache(ai_normalization_cache, facts.hash,
                                           now, cacheReadOk)} :
    \E normalized \in
        {IF cached # NoRow /\ ~normalizeUniversityInput(data, ai).usedAI
         THEN [normalizedName |-> cached.normalized_name,
               name |-> OrElse(cached.display_name, data.name),
               location |-> OrElse(cached.location, data.location),
               country |-> OrElse(cached.country, data.country),
               usedAI |-> TRUE]
         ELSE normalizeUniversityInput(data, ai)} :
    LET inputName == data.name
        deterministicNorm == facts.norm
        inputHash == facts.hash
        cacheHit == cached # NoRow /\ ~normalizeUniversityInput(data, ai).usedAI
        serviceCalled == CallsService(data, ai)
        cache ==
            IF ~cacheHit /\ normalized.usedAI
            THEN setAINormalizationCache(ai_normalization_cache, inputHash,
                                         inputName, normalized, now, cacheWriteOk)
            ELSE ai_normalization_cache
    IN  /\ cacheHit => cacheWriteOk
        /\ (~cacheHit /\ ~normalized.usedAI) => cacheWriteOk
        /\ IF HasSimilar(universities, normalized.normalizedName, SIMILARITY_THRESHOLD_LOW)
           THEN txOk
           ELSE aliasOk
        /\ IF HasSimilar(universities, normalized.normalizedName, SIMILARITY_THRESHOLD_LOW)
           THEN \E c \in FirstSimilar(universities, normalized.normalizedName,
                                      SIMILARITY_THRESHOLD_LOW) :
                   LET a1 == addAlias(university_aliases, c, inputName,
                                      deterministicNorm, aliasOk)
                       a2 == IF normalized.normalizedName # deterministicNorm
                             THEN addAlias(a1, c, normalized.name,
                                           normalized.normalizedName, aliasOk)
                             ELSE a1
                   IN  ReturnExisting(data, "postAI", c, normalized, serviceCalled,
                                      cacheHit, cache, a2)
           ELSE CreateUniversity(data, normalized, serviceCalled, cacheHit, cache, txOk)

\* PHASE 2 for an ambiguous input: cache, reasoning service, second lookup
ResolveAmbiguous(data, ai, cacheReadOk, cacheWriteOk, aliasOk, txOk) ==
    \E facts \in {NameFacts[data.name]} :
    \E cached \in {getAINormalizationCache(ai_normalization_cache, facts.hash,
                                           now, cacheReadOk)} :
    \E normalized \in
        {IF cached # NoRow
         THEN [normalizedName |-> cached.normalized_name,
               name |-> OrElse(cached.display_name, data.name),
               location |-> OrElse(cached.location, data.location),
               country |-> OrElse(cached.country, data.country),
               usedAI |-> TRUE]
         ELSE normalizeUniversityInput(data, ai)} :
    LET inputName == data.name
        deterministicNorm == facts.norm
        inputHash == facts.hash
        cacheHit == cached # NoRow
        serviceCalled == ~cacheHit /\ CallsService(data, ai)
        cache ==
            IF ~cacheHit /\ normalized.usedAI
            THEN setAINormalizationCache(ai_normalization_cache, inputHash,
                                         inputName, normalized, now, cacheWriteOk)
            ELSE ai_normalization_cache
    IN  /\ cacheHit => (ai = DefaultAI /\ cacheWriteOk)
        /\ (~cacheHit /\ ~normalized.usedAI) => cacheWriteOk
        /\ IF HasSimilar(universities, normalized.normalizedName, SIMILARITY_THRESHOLD_LOW)
           THEN txOk
           ELSE aliasOk
        /\ IF HasSimilar(universities, normalized.normalizedName, SIMILARITY_THRESHOLD_LOW)
           THEN \E c \in FirstSimilar(universities, normalized.normalizedName,
                                      SIMILARITY_THRESHOLD_LOW) :
                   LET a1 == addAlias(university_aliases, c, inputName,
                                      deterministicNorm, aliasOk)
                       a2 == IF normalized.normalizedName # deterministicNorm
                             THEN addAlias(a1, c, normalized.name,
                                           normalized.normalizedName, aliasOk)
                             ELSE a1
                   IN  ReturnExisting(data, "postAI", c, normalized, serviceCalled,
                                      cacheHit, cache, a2)
           ELSE CreateUniversity(data, normalized, serviceCalled, cacheHit, cache, txOk)

\* PHASE 2 for an input that is not ambiguous: low-confidence lookup
ResolveDeterministic(data, aliasOk, txOk) ==
    \E facts \in {NameFacts[data.name]} :
    LET inputName == data.name
        deterministicNorm == facts.norm
        normalized == [normalizedName |-> deterministicNorm, name |-> inputName,
                       location |-> data.location, country |-> data.country,
                       usedAI |-> FALSE]
    IN  /\ IF HasSimilar(universities, deterministicNorm, SIMILARITY_THRESHOLD_LOW)
           THEN txOk
           ELSE aliasOk
        /\ IF HasSimilar(universities, deterministicNorm, SIMILARITY_THRESHOLD_LOW)
           THEN \E c \in FirstSimilar(universities, deterministicNorm,
                                      SIMILARITY_THRESHOLD_LOW) :
                   ReturnExisting(data, "low", c, normalized, FALSE, FALSE,
                                  ai_normalization_cache,
                                  addAlias(university_aliases, c, inputName,
                                           deterministicNorm, aliasOk))
           ELSE CreateUniversity(data, normalized, FALSE, FALSE,
                                 ai_normalization_cache, txOk)

\* Phase 1 with the high-confidence test never passing
Phase1Accepts_Never(unis, q, c) == FALSE

\* highConfidence.length > 0 && highConfidence[0].similarity >= 0.7, for the
\* row c that came first
Phase1Accepts(unis, q, c) ==
    /\ c \in FirstSimilar(unis, q, SIMILARITY_THRESHOLD)
    /\ ScoreAtLeast(SimScore(unis[c], q), SIMILARITY_THRESHOLD)

addUniversity(data, ai, cacheReadOk, cacheWriteOk, aliasOk, txOk) ==
    \E facts \in {NameFacts[data.name]} :
    LET inputName == data.name
        deterministicNorm == facts.norm
        normalized == [normalizedName |-> deterministicNorm, name |-> inputName,
                       location |-> data.location, country |-> data.country,
                       usedAI |-> FALSE]
    IN  /\ Len(calls) < MaxCalls
        /\ UNCHANGED <<now, race>>
        \* no path consults the service or the cache for an input that is
        \* not ambiguous, and none both inserts an alias and opens the
        \* transaction
        /\ ~facts.ambiguous => (ai = DefaultAI /\ cacheReadOk /\ cacheWriteOk)
        /\ ~(~aliasOk /\ ~txOk)
        /\ IF \E c \in 1..Len(universities) :
                  Phase1Accepts(universities, deterministicNorm, c)
           THEN \E c \in 1..Len(universities) :
                   /\ ai = DefaultAI /\ cacheReadOk /\ cacheWriteOk /\ txOk
                   /\ Phase1Accepts(universities, deterministicNorm, c)
                   /\ ReturnExisting(data, "phase1", c, normalized, FALSE, FALSE,
                                     ai_normalization_cache,
                                     addAlias(university_aliases, c, inputName,
                                              deterministicNorm, aliasOk))
           ELSE IF facts.ambiguous
           THEN ResolveAmbiguous(data, ai, cacheReadOk, cacheWriteOk, aliasOk, txOk)
           ELSE /\ ai = DefaultAI /\ cacheReadOk /\ cacheWriteOk
                /\ ResolveDeterministic(data, aliasOk, txOk)
        /\ lastResolve' =
               [ai |-> IF ai.kind = "json" THEN "replied" ELSE "failed",
                cacheReadOk |-> cacheReadOk,
                cacheWriteOk |-> cacheWriteOk, txOk |-> txOk,
                client |-> IF calls'[Len(calls')].outcome \in {"created", "error"}
                           THEN "released" ELSE "none"]

\* Time passes: d hours
AdvanceClock(d) ==
    /\ now + d <= MaxTicks * d
    /\ now' = now + d
    /\ UNCHANGED <<resolveVars, university_stats, feedbackVars, chatVars>>

\* ------------------------------------------------------------------------
\* Initial state: an empty store, or the store after "Al Akhawayn
\* University" was added to an empty store
\* ------------------------------------------------------------------------
SeedUniversity ==
    [id |-> 1, name |-> T_AlAkhawaynUniversity,
     normalized_name |-> basicNormalize(T_AlAkhawaynUniversity),
     location |-> T_Ifrane, country |-> T_Morocco]

Init ==
    /\ now = 0
    /\ \/ /\ universities = <<>>
          /\ university_stats = <<>>
          /\ countries = {}
          /\ locations = {}
       \/ /\ universities = <<SeedUniversity>>
          /\ university_stats = (1 :> EmptyStats)
          /\ countries = {T_Morocco}
          /\ locations = {<<T_Ifrane, T_Morocco>>}
    /\ university_aliases = <<>>
    /\ ai_normalization_cache = {}
    /\ calls = <<>>
    /\ lastResolve = NoResolve
    /\ race = <<>>
    /\ reviews = {}
    /\ reviewSeq = 0
    /\ chat_cache = {}
    /\ global_chat_cache = <<>>
    /\ chat_cache_unique = FALSE
    /\ generations = 0
    /\ lastChat = NoChat
    /\ lastRead = NoRead
    /\ lastRanking = NoRanking
    /\ inflight = <<>>

vars == <<now, resolveVars, university_stats, feedbackVars, chatVars>>

NextResolve ==
    \/ \E data \in Requests, ai \in AIOutcomes,
          cacheReadOk \in BOOLEAN, cacheWriteOk \in BOOLEAN,
          aliasOk \in BOOLEAN, txOk \in BOOLEAN :
          addUniversity(data, ai, cacheReadOk, cacheWriteOk, aliasOk, txOk)
    \/ AdvanceClock(NORMALIZATION_TTL \div 2)

SpecResolve == Init /\ [][NextResolve]_vars

\* The seeded store after "AUI" was resolved onto the seeded entity through
\* the reasoning service (reply "Al Akhawayn") while the write of the
\* normalization cache failed: the two aliases of that call are stored
InitAliased ==
    /\ now = 0
    /\ universities = <<SeedUniversity>>
    /\ university_stats = (1 :> EmptyStats)
    /\ countries = {T_Morocco}
    /\ locations = {<<T_Ifrane, T_Morocco>>}
    /\ university_aliases =
           addAlias(addAlias(<<>>, 1, T_AUI, NameFacts[T_AUI].norm, TRUE),
                    1, T_AlAkhawayn, T_AlAkhawayn, TRUE)
    /\ ai_normalization_cache = {}
    /\ calls = <<>>
    /\ lastResolve = NoResolve
    /\ race = <<>>
    /\ reviews = {}
    /\ reviewSeq = 0
    /\ chat_cache = {}
    /\ global_chat_cache = <<>>
    /\ chat_cache_unique = FALSE
    /\ generations = 0
    /\ lastChat = NoChat
    /\ lastRead = NoRead
    /\ lastRanking = NoRanking
    /\ inflight = <<>>

SpecAliased == InitAliased /\ [][NextResolve]_vars

\* ------------------------------------------------------------------------
\* Reviews: schema.sql reviews, the review handlers and the row triggers
\* ------------------------------------------------------------------------
\* Ratings submitted (6 is refused by the route and by the CHECK constraint)
RatingInputs == {1, 5, 6}

\* moderation_status values used
Statuses == {"approved", "pending"}

\* A comment is the first `length` characters of the text called `text`
Comments == {[text |-> "long", length |-> 100]}

\* LEFT(comment, n)
LEFT(comment, n) ==
    [text |-> comment.text,
     length |-> IF comment.length > n THEN n ELSE comment.length]

\* rating INTEGER CHECK (rating >= 1 AND rating <= 5), comment CHECK
\* (char_length(comment) >= 10), university_id REFERENCES universities
RowAccepted(university_id, rating, comment) ==
    /\ university_id \in 1..Len(universities)
    /\ rating >= 1 /\ rating <= 5
    /\ comment.length >= 10

\* WHERE university_id = uni_id AND moderation_status = 'approved'
ApprovedRows(rs, uni_id) ==
    {r \in rs : r.university_id = uni_id /\ r.moderation_status = "approved"}

RECURSIVE SumRatings(_)
SumRatings(rows) ==
    IF rows = {} THEN 0
    ELSE LET r == CHOOSE x \in rows : TRUE
         IN  r.rating + SumRatings(rows \ {r})

\* ROUND(COALESCE(AVG(rating), 0)::numeric, 1), in tenths
RoundedAverage(rows) ==
    IF rows = {} THEN 0
    ELSE (20 * SumRatings(rows) + Cardinality(rows)) \div (2 * Cardinality(rows))

\* ORDER BY rating DESC|ASC, created_at ASC: the oldest first
Precedes_OldestFirst(a, b, ratingDesc) ==
    IF a.rating # b.rating
    THEN IF ratingDesc THEN a.rating > b.rating ELSE a.rating < b.rating
    ELSE a.created_at < b.created_at

\* ORDER BY rating DESC|ASC, created_at DESC
Precedes(a, b, ratingDesc) ==
    IF a.rating # b.rating
    THEN IF ratingDesc THEN a.rating > b.rating ELSE a.rating < b.rating
    ELSE a.created_at > b.created_at

\* ... ORDER BY ... LIMIT limit
RECURSIVE OrderedLimit(_, _, _)
OrderedLimit(rows, ratingDesc, limit) ==
    IF rows = {} \/ limit = 0 THEN <<>>
    ELSE LET first == CHOOSE r \in rows :
                          \A o \in rows \ {r} : Precedes(r, o, ratingDesc)
         IN  <<first>> \o OrderedLimit(rows \ {first}, ratingDesc, limit - 1)

\* COALESCE(string_agg(LEFT(comment, 80), ' | ' ORDER BY ...), sentinel)
SampleOf(rows, sentinel) ==
    IF rows = <<>> THEN [sentinel |-> sentinel, parts |-> <<>>]
    ELSE [sentinel |-> "", parts |-> [i \in 1..Len(rows) |-> LEFT(rows[i].comment, 80)]]

\* CASE WHEN avg_rating >= 4.0 ... WHEN avg_rating >= 3.0 ... (tenths)
ToneOf(avg_rating) ==
    IF avg_rating >= 40 THEN "positive"
    ELSE IF avg_rating >= 30 THEN "mixed"
    ELSE "critical"

\* update_sentiment_summary(uni_id): the average is read from the stats row
update_sentiment_summary(stats, rs, uni_id, t) ==
    IF uni_id \notin DOMAIN stats THEN stats
    ELSE LET avg_rating == stats[uni_id].average_rating
             approved == ApprovedRows(rs, uni_id)
             positive_sample ==
                 OrderedLimit({r \in approved : r.rating >= 4}, TRUE, 3)
             negative_sample ==
                 OrderedLimit({r \in approved : r.rating <= 2}, FALSE, 3)
             summary ==
                 [tone |-> ToneOf(avg_rating),
                  positivePhrases |->
                      SampleOf(positive_sample, "No positive reviews yet"),
                  negativePhrases |->
                      SampleOf(negative_sample, "No negative reviews yet"),
                  lastUpdated |-> t]
         IN  [stats EXCEPT ![uni_id].sentiment_summary = summary]

\* update_university_stats with the moderation filter left out
update_university_stats_Unfiltered(stats, rs, uni_id) ==
    LET rows == {r \in rs : r.university_id = uni_id}
    IN  IF uni_id \in DOMAIN stats
        THEN [stats EXCEPT ![uni_id].total_reviews = Cardinality(rows),
                           ![uni_id].average_rating = RoundedAverage(rows)]
        ELSE stats @@ (uni_id :> [EmptyStats EXCEPT
                                     !.total_reviews = Cardinality(rows),
                                     !.average_rating = RoundedAverage(rows)])

\* update_university_stats(uni_id): INSERT ... ON CONFLICT (university_id)
\* DO UPDATE of the counts and averages; sentiment_summary is not assigned
update_university_stats(stats, rs, uni_id) ==
    LET rows == ApprovedRows(rs, uni_id)
    IN  IF uni_id \in DOMAIN stats
        THEN [stats EXCEPT ![uni_id].total_reviews = Cardinality(rows),
                           ![uni_id].average_rating = RoundedAverage(rows)]
        ELSE stats @@ (uni_id :> [EmptyStats EXCEPT
                                     !.total_reviews = Cardinality(rows),
                                     !.average_rating = RoundedAverage(rows)])

\* The AFTER INSERT OR UPDATE OR DELETE row triggers on reviews.  Triggers
\* of one event fire in the alphabetical order of their names:
\* trg_review_sentiment, then trg_review_stats.
ReviewTriggers(stats, rs, uni_id, t) ==
    update_university_stats(update_sentiment_summary(stats, rs, uni_id, t),
                            rs, uni_id)

\* INSERT INTO reviews followed by a DELETE of the cached answers about the
\* reviewed university
InsertReview_Invalidates(university_id, rating, comment, moderation_status) ==
    LET row == [id |-> reviewSeq + 1, university_id |-> university_id,
                rating |-> rating, comment |-> comment,
                moderation_status |-> moderation_status,
                created_at |-> reviewSeq + 1]
    IN  /\ reviewSeq < MaxInserts
        /\ IF RowAccepted(university_id, rating, comment)
           THEN /\ reviews' = reviews \cup {row}
                /\ reviewSeq' = reviewSeq + 1
                /\ university_stats' =
                       ReviewTriggers(university_stats, reviews \cup {row},
                                      university_id, now)
                /\ chat_cache' =
                       {r \in chat_cache : r.university_id # university_id}
           ELSE UNCHANGED <<reviews, reviewSeq, university_stats, chat_cache>>
        /\ UNCHANGED <<now, resolveVars, global_chat_cache, chat_cache_unique,
                       generations, lastChat, lastRead, lastRanking, inflight>>

\* INSERT INTO reviews (...) VALUES (...) as one statement: the row, then
\* its triggers; a refused row leaves everything as it was
InsertReview(university_id, rating, comment, moderation_status) ==
    LET row == [id |-> reviewSeq + 1, university_id |-> university_id,
                rating |-> rating, comment |-> comment,
                moderation_status |-> moderation_status,
                created_at |-> reviewSeq + 1]
    IN  /\ reviewSeq < MaxInserts
        /\ IF RowAccepted(university_id, rating, comment)
           THEN /\ reviews' = reviews \cup {row}
                /\ reviewSeq' = reviewSeq + 1
                /\ university_stats' =
                       ReviewTriggers(university_stats, reviews \cup {row},
                                      university_id, now)
           ELSE UNCHANGED <<reviews, reviewSeq, university_stats>>
        /\ UNCHANGED <<now, resolveVars, chatVars>>

\* dataStore.js addReview: moderationStatus || 'approved'
addReview(review) ==
    InsertReview(review.universityId, review.rating, review.comment,
                 COALESCE(review.moderationStatus, "approved"))

\* POST /api/reviews: validation, moderation, addReview
SubmitReview(universityId, rating, comment, safe) ==
    IF rating < 1 \/ rating > 5 \/ comment.length < 10 \/ ~safe
    THEN UNCHANGED vars
    ELSE addReview([universityId |-> universityId, rating |-> rating,
                    comment |-> comment, moderationStatus |-> Absent])

\* POST /api/admin/reviews: moderation_status || 'approved'
AdminCreateReview(university_id, rating, comment, moderation_status) ==
    InsertReview(university_id, rating, comment,
                 COALESCE(moderation_status, "approved"))

\* PUT /api/admin/reviews/:id: COALESCE($n, column) keeps the column when
\* the field is absent; university_id is never assigned
AdminUpdateReview(id, rating, comment, moderation_status) ==
    /\ \E old \in {r \in reviews : r.id = id} :
          LET new == [old EXCEPT
                         !.rating = COALESCE(rating, old.rating),
                         !.comment = COALESCE(comment, old.comment),
                         !.moderation_status =
                             COALESCE(moderation_status, old.moderation_status)]
              rs == (reviews \ {old}) \cup {new}
          IN  IF RowAccepted(new.university_id, new.rating, new.comment)
              THEN /\ reviews' = rs
                   /\ university_stats' =
                          ReviewTriggers(university_stats, rs,
                                         new.university_id, now)
              ELSE UNCHANGED <<reviews, university_stats>>
    /\ UNCHANGED <<now, resolveVars, reviewSeq, chatVars>>

\* DELETE /api/admin/reviews/:id
AdminDeleteReview(id) ==
    /\ \E old \in {r \in reviews : r.id = id} :
          /\ reviews' = reviews \ {old}
          /\ university_stats' =
                 ReviewTriggers(university_stats, reviews \ {old},
                                old.university_id, now)
    /\ UNCHANGED <<now, resolveVars, reviewSeq, chatVars>>

\* The store after two universities were added, no review yet
SecondUniversity ==
    [id |-> 2, name |-> T_OxfordUK,
     normalized_name |-> basicNormalize(T_OxfordUK),
     location |-> NULL, country |-> NULL]

InitFeedback ==
    /\ now = 0
    /\ universities = <<SeedUniversity, SecondUniversity>>
    /\ university_stats = (1 :> EmptyStats) @@ (2 :> EmptyStats)
    /\ countries = {T_Morocco}
    /\ locations = {<<T_Ifrane, T_Morocco>>}
    /\ university_aliases = <<>>
    /\ ai_normalization_cache = {}
    /\ calls = <<>>
    /\ lastResolve = NoResolve
    /\ race = <<>>
    /\ reviews = {}
    /\ reviewSeq = 0
    /\ chat_cache = {}
    /\ global_chat_cache = <<>>
    /\ chat_cache_unique = FALSE
    /\ generations = 0
    /\ lastChat = NoChat
    /\ lastRead = NoRead
    /\ lastRanking = NoRanking
    /\ inflight = <<>>

NextFeedback ==
    \/ \E universityId \in 1..Len(universities), rating \in RatingInputs,
          comment \in Comments, safe \in BOOLEAN :
          SubmitReview(universityId, rating, comment, safe)
    \/ \E university_id \in 1..Len(universities), rating \in RatingInputs,
          comment \in Comments,
          moderation_status \in Optional(Statuses) :
          AdminCreateReview(university_id, rating, comment, moderation_status)
    \/ \E id \in 1..MaxInserts,
          rating \in Optional(RatingInputs), comment \in Optional(Comments),
          moderation_status \in Optional(Statuses) :
          AdminUpdateReview(id, rating, comment, moderation_status)
    \/ \E id \in 1..MaxInserts : AdminDeleteReview(id)

SpecFeedback == InitFeedback /\ [][NextFeedback]_vars

\* ------------------------------------------------------------------------
\* Response caches: dataStore.js getCachedResponse, cacheResponse,
\* getCachedGlobalResponse, cacheGlobalResponse
\* ------------------------------------------------------------------------
T_dorms == <<"d", "o", "r", "m", "s">>
T_DORMS_padded == <<" ", "D", "O", "R", "M", "S">>

\* The query texts submitted
Queries == {T_dorms, T_DORMS_padded}

\* A query text whose hash differs from that of "dorms"
T_food == <<"f", "o", "o", "d">>

\* hashQuery(userQuery) per query text, computed once
QueryHash ==
    LET f == [q \in Queries \cup {T_food} |-> hashQuery(q)]
    IN  IF f = f THEN f ELSE f

\* The outcome of an awaited statement: whether it threw, and the rows it
\* returned (a SELECT) or left in the table (an INSERT)
Threw(rows) == [threw |-> TRUE, rows |-> rows]
Completed(rows) == [threw |-> FALSE, rows |-> rows]

\* getCachedResponse with the comparison admitting expires_at = NOW()
getCachedResponse_AtExpiry(rows, universityId, queryHash, t, ok) ==
    IF ~ok THEN Threw({})
    ELSE Completed({r \in rows : /\ r.university_id = universityId
                                 /\ r.query_hash = queryHash
                                 /\ r.expires_at >= t})

\* getCachedResponse: the rows among which LIMIT 1 takes one; the failing
\* statement throws to the caller
getCachedResponse(rows, universityId, queryHash, t, ok) ==
    IF ~ok THEN Threw({})
    ELSE Completed({r \in rows : /\ r.university_id = universityId
                                 /\ r.query_hash = queryHash
                                 /\ r.expires_at > t})

\* cacheResponse: INSERT ... ON CONFLICT (university_id, query_hash) DO
\* UPDATE.  The statement is refused when no unique index covers the
\* conflict target; the error is thrown to the caller.
cacheResponse(rows, unique, universityId, queryHash, queryText, responseText, t, ok) ==
    IF ~ok \/ ~unique THEN Threw(rows)
    ELSE IF \E r \in rows : r.university_id = universityId /\ r.query_hash = queryHash
    THEN Completed({IF r.university_id = universityId /\ r.query_hash = queryHash
                    THEN [r EXCEPT !.response_text = responseText,
                                   !.expires_at = t + CHAT_TTL]
                    ELSE r : r \in rows})
    ELSE Completed(rows \cup {[university_id |-> universityId,
                               query_hash |-> queryHash,
                               query_text |-> queryText,
                               response_text |-> responseText,
                               expires_at |-> t + CHAT_TTL]})

\* region = $2 OR (region IS NULL AND $2 IS NULL)
RegionMatches(rowRegion, region) ==
    \/ rowRegion # NULL /\ region # NULL /\ rowRegion = region
    \/ rowRegion = NULL /\ region = NULL

\* getCachedGlobalResponse with the region predicate left out of the WHERE
\* clause
getCachedGlobalResponse_AnyRegion(rows, queryHash, region, t, ok) ==
    IF ~ok THEN Completed({})
    ELSE Completed({rows[i] : i \in
             {j \in 1..Len(rows) : /\ rows[j].query_hash = queryHash
                                   /\ rows[j].expires_at > t}})

\* getCachedGlobalResponse: a failing statement is caught and gives null
getCachedGlobalResponse(rows, queryHash, region, t, ok) ==
    IF ~ok THEN Completed({})
    ELSE Completed({rows[i] : i \in
             {j \in 1..Len(rows) : /\ rows[j].query_hash = queryHash
                                   /\ RegionMatches(rows[j].region, region)
                                   /\ rows[j].expires_at > t}})

\* The rows UNIQUE(query_hash, region) makes the INSERT conflict with: a
\* null region is distinct from every region, null included
GlobalConflicts(rows, queryHash, region) ==
    {j \in 1..Len(rows) : /\ rows[j].query_hash = queryHash
                          /\ region # NULL
                          /\ rows[j].region # NULL
                          /\ rows[j].region = region}

\* cacheGlobalResponse: INSERT ... ON CONFLICT (query_hash, region) DO
\* UPDATE; a failing statement is caught
cacheGlobalResponse(rows, queryHash, queryText, responseText, region, t, ok) ==
    IF ~ok THEN Completed(rows)
    ELSE IF GlobalConflicts(rows, queryHash, region) # {}
    THEN Completed([j \in 1..Len(rows) |->
                       IF j \in GlobalConflicts(rows, queryHash, region)
                       THEN [rows[j] EXCEPT !.response_text = responseText,
                                            !.expires_at = t + CHAT_TTL]
                       ELSE rows[j]])
    ELSE Completed(Append(rows, [query_hash |-> queryHash, region |-> region,
                                 query_text |-> queryText,
                                 response_text |-> responseText,
                                 expires_at |-> t + CHAT_TTL]))

\* ------------------------------------------------------------------------
\* POST /api/ai/chat
\* ------------------------------------------------------------------------
\* generateInsight: the model's text, or a fixed message when the call fails
generateInsight(outcome, n) ==
    IF outcome = "text" THEN GeneratedText(n)
    ELSE Fallback("Sorry, I'm having trouble right now. Try again later.")

\* generateGlobalInsight: likewise
generateGlobalInsight(outcome, n) ==
    IF outcome = "text" THEN GeneratedText(n)
    ELSE Fallback("Sorry, I'm having trouble right now. Try again later.")

GeneratorOutcomes == {"text"}

\* preRankUniversities without the WHERE clause on total_reviews
RankedCandidates_Unfiltered(unis, stats) == 1..Len(unis)

\* preRankUniversities: the universities its WHERE clause keeps
\* (COALESCE(s.total_reviews, 0) > 0); the list is empty exactly when this
\* set is
RankedCandidates(unis, stats) ==
    {i \in 1..Len(unis) : i \in DOMAIN stats /\ stats[i].total_reviews > 0}

\* getCachedResponse awaited without the surrounding try/catch
TryGetCachedResponse_Rethrow(rows, universityId, queryHash, t, ok) ==
    getCachedResponse(rows, universityId, queryHash, t, ok)

\* try { getCachedResponse } catch { warn }: a failed lookup is a miss
TryGetCachedResponse(rows, universityId, queryHash, t, ok) ==
    Completed(getCachedResponse(rows, universityId, queryHash, t, ok).rows)

\* try { cacheResponse } catch { warn }: a failed write is ignored
TryCacheResponse(rows, unique, universityId, queryHash, queryText, responseText, t, ok) ==
    Completed(cacheResponse(rows, unique, universityId, queryHash, queryText,
                            responseText, t, ok).rows)

\* The request just answered: its cache key, the response sent, whether the
\* generator was invoked, whether a cache statement failed for a reason
\* outside the program (connection, timeout), and whether another database
\* statement did
ChatRecord(universityId, queryHash, region, status, response, cached, generated, cacheFault, dbFailed) ==
    [seq |-> lastChat.seq + 1,
     key |-> [universityId |-> universityId, query_hash |-> queryHash,
              region |-> region],
     status |-> status, response |-> response, cached |-> cached,
     generated |-> generated, cacheFault |-> cacheFault,
     dbFailed |-> dbFailed, at |-> now]

\* res.status(...).json(...) with no cache written and no generation
RespondOnly(record) ==
    /\ lastChat' = record
    /\ UNCHANGED <<chat_cache, global_chat_cache, generations>>

\* SPECIFIC UNIVERSITY CHAT
chatEntity(query, queryHash, id, dbOk, readOk, gen, writeOk) ==
    LET Record(status, response, cached, generated, cacheFault, dbFailed) ==
            ChatRecord(Given(id), queryHash, NULL, status, response, cached,
                       generated, cacheFault, dbFailed)
    IN  IF ~dbOk
        THEN /\ readOk /\ writeOk /\ gen = "text"
             /\ RespondOnly(Record(500, NoResponse, FALSE, FALSE, FALSE, TRUE))
        ELSE IF id \notin 1..Len(universities)
        THEN /\ readOk /\ writeOk /\ gen = "text"
             /\ RespondOnly(Record(404, NoResponse, FALSE, FALSE, FALSE, FALSE))
        ELSE \E lookup \in {TryGetCachedResponse(chat_cache, id, queryHash,
                                                 now, readOk)} :
             IF lookup.threw
             THEN /\ writeOk /\ gen = "text"
                  /\ RespondOnly(Record(500, NoResponse, FALSE, FALSE, TRUE, FALSE))
             ELSE IF lookup.rows # {}
             THEN /\ writeOk /\ gen = "text"
                  /\ \E r \in lookup.rows :
                        RespondOnly(Record(200, r.response_text, TRUE, FALSE,
                                           FALSE, FALSE))
             ELSE \E response \in {generateInsight(gen, generations + 1)} :
                  \E written \in {TryCacheResponse(chat_cache, chat_cache_unique,
                                      id, queryHash, query, response, now,
                                      writeOk)} :
                     /\ generations' = generations + 1
                     /\ chat_cache' = written.rows
                     /\ UNCHANGED global_chat_cache
                     /\ lastChat' =
                            IF written.threw
                            THEN Record(500, NoResponse, FALSE, TRUE, TRUE, FALSE)
                            ELSE Record(200, response, FALSE, TRUE,
                                        ~readOk \/ ~writeOk, FALSE)

\* GLOBAL CHAT
chatGlobal(query, queryHash, region, dbOk, readOk, gen, writeOk) ==
    LET Record(status, response, cached, generated, cacheFault, dbFailed) ==
            ChatRecord(Absent, queryHash, region, status, response, cached,
                       generated, cacheFault, dbFailed)
    IN  \E lookup \in {getCachedGlobalResponse(global_chat_cache, queryHash,
                                               region, now, readOk)} :
        IF lookup.rows # {}
        THEN /\ dbOk /\ writeOk /\ gen = "text"
             /\ \E r \in lookup.rows :
                   RespondOnly(Record(200, r.response_text, TRUE, FALSE,
                                      FALSE, FALSE))
        ELSE IF ~dbOk
        THEN /\ writeOk /\ gen = "text"
             /\ RespondOnly(Record(500, NoResponse, FALSE, FALSE, ~readOk, TRUE))
        ELSE IF RankedCandidates(universities, university_stats) = {}
        THEN /\ writeOk /\ gen = "text"
             /\ RespondOnly(Record(200,
                    Fallback("I don't have enough data yet to answer that."),
                    FALSE, FALSE, ~readOk, FALSE))
        ELSE \E response \in {generateGlobalInsight(gen, generations + 1)} :
             /\ generations' = generations + 1
             /\ global_chat_cache' =
                    cacheGlobalResponse(global_chat_cache, queryHash, query,
                                        response, region, now, writeOk).rows
             /\ UNCHANGED chat_cache
             /\ lastChat' = Record(200, response, FALSE, TRUE,
                                   ~readOk \/ ~writeOk, FALSE)

\* router.post('/chat'): an environment choice the request never consults
\* is held at its default
chat(query, universityId, region, dbOk, readOk, gen, writeOk) ==
    /\ lastChat.seq < MaxRequests
    /\ UNCHANGED <<now, resolveVars, university_stats, feedbackVars,
                   chat_cache_unique, lastRead,
                   lastRanking, inflight>>
    /\ IF query = <<>>
       THEN /\ dbOk /\ readOk /\ writeOk /\ gen = "text"
            /\ RespondOnly(ChatRecord(universityId, <<0, 0>>, region, 400,
                                      NoResponse, FALSE, FALSE, FALSE, FALSE))
       ELSE \E queryHash \in {QueryHash[query]} :
            IF universityId.present
            THEN /\ region = NULL
                 /\ chatEntity(query, queryHash, universityId.value, dbOk,
                               readOk, gen, writeOk)
            ELSE chatGlobal(query, queryHash, region, dbOk, readOk, gen, writeOk)

\* The store the chat requests run against: one university, reviewed or
\* not; the unique index on chat_cache created (optimize_db.sql,
\* create-indexes.js) or not (schema.sql alone)
SeedReview ==
    [id |-> 1, university_id |-> 1, rating |-> 5,
     comment |-> [text |-> "long", length |-> 100],
     moderation_status |-> "approved", created_at |-> 1]

InitChat ==
    /\ now = 0
    /\ universities = <<SeedUniversity>>
    /\ countries = {T_Morocco}
    /\ locations = {<<T_Ifrane, T_Morocco>>}
    /\ university_aliases = <<>>
    /\ ai_normalization_cache = {}
    /\ calls = <<>>
    /\ lastResolve = NoResolve
    /\ race = <<>>
    /\ \/ /\ reviews = {}
          /\ reviewSeq = 0
          /\ university_stats = (1 :> EmptyStats)
       \/ /\ reviews = {SeedReview}
          /\ reviewSeq = 1
          /\ university_stats =
                 ReviewTriggers((1 :> EmptyStats), {SeedReview}, 1, 0)
    /\ chat_cache = {}
    /\ global_chat_cache = <<>>
    /\ chat_cache_unique \in BOOLEAN
    /\ generations = 0
    /\ lastChat = NoChat
    /\ lastRead = NoRead
    /\ lastRanking = NoRanking
    /\ inflight = <<>>

NextChat ==
    \/ \E query \in Queries \cup {<<>>}, universityId \in Optional({1, 2}),
          region \in {NULL, T_Morocco}, dbOk \in BOOLEAN, readOk \in BOOLEAN,
          gen \in GeneratorOutcomes, writeOk \in BOOLEAN :
          chat(query, universityId, region, dbOk, readOk, gen, writeOk)
    \/ AdvanceClock(CHAT_TTL \div 2)

SpecChat == InitChat /\ [][NextChat]_vars

\* ------------------------------------------------------------------------
\* The cache functions of dataStore.js called one at a time
\* ------------------------------------------------------------------------
\* What a reply of the reasoning service normalizes "AUI" to
CachedNormalizations ==
    {[normalizedName |-> T_al_akhawayn, name |-> T_AlAkhawaynUniversity,
      location |-> T_Ifrane, country |-> T_Morocco, usedAI |-> TRUE]}

ResponseTexts == {GeneratedText(1)}

StoredRows(normRows, chatRows, globalRows) ==
    Cardinality(normRows) + Cardinality(chatRows) + Len(globalRows)

\* What a read returned: whether a row of the key is physically stored,
\* whether the read returned an entry, and that row's expiry
ReadRecord(cache, stored, returned) ==
    IF returned # {}
    THEN {[cache |-> cache, at |-> now, stored |-> TRUE, found |-> TRUE,
           expires_at |-> r.expires_at] : r \in returned}
    ELSE IF stored # {}
    THEN {[cache |-> cache, at |-> now, stored |-> TRUE, found |-> FALSE,
           expires_at |-> r.expires_at] : r \in stored}
    ELSE {[cache |-> cache, at |-> now, stored |-> FALSE, found |-> FALSE,
           expires_at |-> 0]}

CallSetAINormalizationCache(name, normalized, ok) ==
    /\ ai_normalization_cache' =
           setAINormalizationCache(ai_normalization_cache, NameFacts[name].hash,
                                   name, normalized, now, ok)
    /\ UNCHANGED <<now, universities, university_aliases, countries, locations,
                   calls, lastResolve, race, university_stats, feedbackVars,
                   chat_cache,
                   global_chat_cache, chat_cache_unique, generations, lastChat,
                   lastRead,
                   lastRanking, inflight>>
    /\ StoredRows(ai_normalization_cache', chat_cache', global_chat_cache')
           <= MaxRows

CallGetAINormalizationCache(name, ok) ==
    /\ \E hash \in {NameFacts[name].hash} :
       \E row \in {getAINormalizationCache(ai_normalization_cache, hash, now, ok)} :
          lastRead' \in
              ReadRecord("ai_normalization_cache",
                         {r \in ai_normalization_cache : r.input_hash = hash},
                         IF row = NoRow THEN {} ELSE {row})
    /\ UNCHANGED <<now, resolveVars, university_stats, feedbackVars, chat_cache,
                   global_chat_cache, chat_cache_unique, generations, lastChat,
                   lastRanking, inflight>>

CallCacheResponse(universityId, query, responseText, ok) ==
    /\ chat_cache' =
           cacheResponse(chat_cache, chat_cache_unique, universityId,
                         QueryHash[query], query, responseText, now, ok).rows
    /\ UNCHANGED <<now, resolveVars, university_stats, feedbackVars,
                   global_chat_cache, chat_cache_unique, generations, lastChat,
                   lastRead,
                   lastRanking, inflight>>
    /\ StoredRows(ai_normalization_cache', chat_cache', global_chat_cache')
           <= MaxRows

CallGetCachedResponse(universityId, query, ok) ==
    /\ \E hash \in {QueryHash[query]} :
          lastRead' \in
              ReadRecord("chat_cache",
                         {r \in chat_cache : /\ r.university_id = universityId
                                             /\ r.query_hash = hash},
                         getCachedResponse(chat_cache, universityId, hash,
                                           now, ok).rows)
    /\ UNCHANGED <<now, resolveVars, university_stats, feedbackVars, chat_cache,
                   global_chat_cache, chat_cache_unique, generations, lastChat,
                   lastRanking, inflight>>

CallCacheGlobalResponse(query, responseText, region, ok) ==
    /\ global_chat_cache' =
           cacheGlobalResponse(global_chat_cache, QueryHash[query], query,
                               responseText, region, now, ok).rows
    /\ UNCHANGED <<now, resolveVars, university_stats, feedbackVars, chat_cache,
                   chat_cache_unique, generations, lastChat, lastRead,
                   lastRanking, inflight>>
    /\ StoredRows(ai_normalization_cache', chat_cache', global_chat_cache')
           <= MaxRows

CallGetCachedGlobalResponse(query, region, ok) ==
    /\ \E hash \in {QueryHash[query]} :
          lastRead' \in
              ReadRecord("global_chat_cache",
                         {global_chat_cache[j] : j \in
                             {k \in 1..Len(global_chat_cache) :
                                 /\ global_chat_cache[k].query_hash = hash
                                 /\ RegionMatches(global_chat_cache[k].region,
                                                  region)}},
                         getCachedGlobalResponse(global_chat_cache, hash, region,
                                                 now, ok).rows)
    /\ UNCHANGED <<now, resolveVars, university_stats, feedbackVars, chat_cache,
                   global_chat_cache, chat_cache_unique, generations, lastChat,
                   lastRanking, inflight>>

NextCaches ==
    \/ \E normalized \in CachedNormalizations, ok \in BOOLEAN :
          CallSetAINormalizationCache(T_AUI, normalized, ok)
    \/ \E ok \in BOOLEAN : CallGetAINormalizationCache(T_AUI, ok)
    \/ \E responseText \in ResponseTexts, ok \in BOOLEAN :
          CallCacheResponse(1, T_dorms, responseText, ok)
    \/ \E ok \in BOOLEAN : CallGetCachedResponse(1, T_dorms, ok)
    \/ \E responseText \in ResponseTexts, region \in {NULL, T_Morocco},
          ok \in BOOLEAN :
          CallCacheGlobalResponse(T_dorms, responseText, region, ok)
    \/ \E region \in {NULL, T_Morocco}, ok \in BOOLEAN :
          CallGetCachedGlobalResponse(T_dorms, region, ok)
    \/ AdvanceClock(CHAT_TTL)
    \/ AdvanceClock(NORMALIZATION_TTL)

InitCaches == InitChat /\ reviews = {}

SpecCaches == InitCaches /\ [][NextCaches]_vars

\* ------------------------------------------------------------------------
\* The response caches written and read under several keys: two
\* universities, two query hashes, two regions
\* ------------------------------------------------------------------------
KeyQueries == {T_dorms, T_food}
KeyRegions == {NULL, T_Morocco}
KeyTexts == {GeneratedText(1), GeneratedText(2)}

\* Two universities and no review; idx_chat_cache_unique created or not
InitKeys ==
    /\ now = 0
    /\ universities = <<SeedUniversity, SecondUniversity>>
    /\ university_stats = (1 :> EmptyStats) @@ (2 :> EmptyStats)
    /\ countries = {T_Morocco}
    /\ locations = {<<T_Ifrane, T_Morocco>>}
    /\ university_aliases = <<>>
    /\ ai_normalization_cache = {}
    /\ calls = <<>>
    /\ lastResolve = NoResolve
    /\ race = <<>>
    /\ reviews = {}
    /\ reviewSeq = 0
    /\ chat_cache = {}
    /\ global_chat_cache = <<>>
    /\ chat_cache_unique \in BOOLEAN
    /\ generations = 0
    /\ lastChat = NoChat
    /\ lastRead = NoRead
    /\ lastRanking = NoRanking
    /\ inflight = <<>>

NextKeys ==
    \/ \E universityId \in 1..Len(universities), query \in KeyQueries,
          responseText \in KeyTexts :
          CallCacheResponse(universityId, query, responseText, TRUE)
    \/ \E universityId \in 1..Len(universities), query \in KeyQueries :
          CallGetCachedResponse(universityId, query, TRUE)
    \/ \E query \in KeyQueries, responseText \in KeyTexts, region \in KeyRegions :
          CallCacheGlobalResponse(query, responseText, region, TRUE)
    \/ \E query \in KeyQueries, region \in KeyRegions :
          CallGetCachedGlobalResponse(query, region, TRUE)

SpecKeys == InitKeys /\ [][NextKeys]_vars

\* ------------------------------------------------------------------------
\* Candidate ranking (preRankUniversities)
\* ------------------------------------------------------------------------
\* CONFIG.MAX_CANDIDATES_GLOBAL
MAX_CANDIDATES_GLOBAL == 5

\* .replace(/[^\w\s]/g, '')
StripPunctuation(s) == SelectSeq(s, LAMBDA c : IsWordChar(c) \/ IsSpace(c))

RECURSIVE PieceLength(_)
PieceLength(s) ==
    IF s = <<>> THEN 0
    ELSE IF IsSpace(Head(s)) THEN 0
    ELSE 1 + PieceLength(Tail(s))

\* .split(/\s+/): the pieces between the runs of whitespace (the empty
\* piece a leading or trailing run produces included), as a set
RECURSIVE SplitOnSpaces(_)
SplitOnSpaces(s) ==
    LET n == PieceLength(s)
        rest == SubSeq(s, n + 1, Len(s))
        gap == RunLength(rest, "space")
    IN  IF gap = 0 THEN {SubSeq(s, 1, n)}
        ELSE {SubSeq(s, 1, n)}
                 \cup SplitOnSpaces(SubSeq(rest, gap + 1, Len(rest)))

\* const keywords = queryText.toLowerCase().replace(...).split(...)
\*                      .filter(w => w.length > 2)
Keywords(queryText) ==
    {w \in SplitOnSpaces(StripPunctuation(toLowerCase(queryText))) : Len(w) > 2}

\* keywordPatterns.length > 0 ? keywordPatterns : ['%%'].  A pattern
\* `%${k}%` is kept as its inner text k
Patterns(queryText) ==
    IF Keywords(queryText) = {} THEN {<<>>} ELSE Keywords(queryText)

\* text ILIKE '%' || inner || '%' (inner without "%" and "\"): the inner
\* text lies somewhere over text, "_" standing for any one character and
\* letters matching in either case; NULL ILIKE anything is not true
ILIKE(text, inner) ==
    /\ text # NULL
    /\ \E i \in 0..(Len(text) - Len(inner)) :
          \A j \in 1..Len(inner) :
              inner[j] = "_" \/ LowerChar(text[i + j]) = LowerChar(inner[j])

\* CASE WHEN c.name ILIKE $1 THEN 1.5 ELSE 0 END, in hundredths; the term
\* is in the statement of the if (region) branch only
RegionBonus(u, region) ==
    IF Falsy(region) THEN 0
    ELSE IF ILIKE(u.country, region) THEN 150 ELSE 0

\* CASE WHEN u.name ILIKE ANY($2) OR u.description ILIKE ANY($2)
\* THEN 1.0 ELSE 0 END, in hundredths.  The description is the '' the POST
\* route stores when the request carries none (description || '')
KeywordBonus(u, patterns) ==
    IF \E p \in patterns : ILIKE(u.name, p) \/ ILIKE(<<>>, p)
    THEN 100 ELSE 0

\* relevance_score in hundredths (average_rating is kept in tenths):
\* average_rating * 0.4 + LEAST(total_reviews / 10.0, 2) * 0.3 + bonuses
RelevanceScore(u, s, region, patterns) ==
    4 * s.average_rating
        + 3 * (IF s.total_reviews <= 20 THEN s.total_reviews ELSE 20)
        + RegionBonus(u, region) + KeywordBonus(u, patterns)

\* One row of the statement, as result.rows.map(...) returns it
RankedRow(u, s, region, patterns) ==
    [id |-> u.id, name |-> u.name, country |-> u.country,
     reviewCount |-> s.total_reviews, avgRating |-> s.average_rating,
     relevanceScore |-> RelevanceScore(u, s, region, patterns)]

\* ORDER BY relevance_score DESC, s.average_rating DESC NULLS LAST
RankedBefore(a, b) ==
    \/ a.relevanceScore > b.relevanceScore
    \/ /\ a.relevanceScore = b.relevanceScore
       /\ a.avgRating > b.avgRating

\* ORDER BY ... LIMIT n: every sequence the sort allows; rows equal in
\* both sort keys come in either order
RECURSIVE OrderedRows(_, _)
OrderedRows(rows, n) ==
    IF rows = {} \/ n = 0 THEN {<<>>}
    ELSE UNION {{<<r>> \o rest : rest \in OrderedRows(rows \ {r}, n - 1)} :
                    r \in {x \in rows : \A o \in rows : ~RankedBefore(o, x)}}

\* ORDER BY relevance_score ASC, s.average_rating ASC in place of DESC
preRankUniversities_Ascending(unis, stats, queryText, region) ==
    LET patterns == Patterns(queryText)
        rows == {RankedRow(unis[i], stats[i], region, patterns) :
                     i \in RankedCandidates(unis, stats)}
        kept == IF Cardinality(rows) <= MAX_CANDIDATES_GLOBAL
                THEN Cardinality(rows) ELSE MAX_CANDIDATES_GLOBAL
    IN  {[k \in 1..kept |-> r[Len(r) + 1 - k]] :
             r \in OrderedRows(rows, Cardinality(rows))}

\* preRankUniversities(queryText, region): the row sequences it can return
preRankUniversities(unis, stats, queryText, region) ==
    LET patterns == Patterns(queryText)
        rows == {RankedRow(unis[i], stats[i], region, patterns) :
                     i \in RankedCandidates(unis, stats)}
    IN  OrderedRows(rows, MAX_CANDIDATES_GLOBAL)

CallPreRankUniversities(queryText, region) ==
    /\ \E rows \in preRankUniversities(universities, university_stats,
                                       queryText, region) :
          lastRanking' = [called |-> TRUE, queryText |-> queryText,
                          region |-> region, rows |-> rows]
    /\ UNCHANGED <<now, resolveVars, university_stats, feedbackVars, chat_cache,
                   global_chat_cache, chat_cache_unique, generations, lastChat,
                   lastRead, inflight>>

\* Six universities (one more than MAX_CANDIDATES_GLOBAL) as createUniversity
\* stores them: Strathmore in Nairobi, Kenya; Colombo in "Sri_Lanka"; Kandy
\* School in "Sri Lanka"; Oxford in the UK; Rabat School in Morocco
RankedStore ==
    <<SeedUniversity,
      [id |-> 2, name |-> <<"S", "t", "r", "a", "t", "h", "m", "o", "r", "e">>,
       normalized_name |->
           basicNormalize(<<"S", "t", "r", "a", "t", "h", "m", "o", "r", "e">>),
       location |-> <<"N", "a", "i", "r", "o", "b", "i">>,
       country |-> <<"K", "e", "n", "y", "a">>],
      [id |-> 3, name |-> <<"C", "o", "l", "o", "m", "b", "o">>,
       normalized_name |-> basicNormalize(<<"C", "o", "l", "o", "m", "b", "o">>),
       location |-> <<"C", "o", "l", "o", "m", "b", "o">>,
       country |-> <<"S", "r", "i", "_", "L", "a", "n", "k", "a">>],
      [id |-> 4,
       name |-> <<"K", "a", "n", "d", "y", " ", "S", "c", "h", "o", "o", "l">>,
       normalized_name |->
           basicNormalize(<<"K", "a", "n", "d", "y", " ", "S", "c", "h", "o", "o", "l">>),
       location |-> <<"K", "a", "n", "d", "y">>,
       country |-> <<"S", "r", "i", " ", "L", "a", "n", "k", "a">>],
      [id |-> 5, name |-> T_Oxford, normalized_name |-> basicNormalize(T_Oxford),
       location |-> T_Oxford, country |-> <<"U", "K">>],
      [id |-> 6,
       name |-> <<"R", "a", "b", "a", "t", " ", "S", "c", "h", "o", "o", "l">>,
       normalized_name |->
           basicNormalize(<<"R", "a", "b", "a", "t", " ", "S", "c", "h", "o", "o", "l">>),
       location |-> T_Rabat, country |-> T_Morocco]>>

\* The ratings of the approved reviews a university has, per university
RatingProfiles ==
    <<{<<>>, <<3, 3, 3>>, <<5, 4>>},
      {<<>>, <<5, 4, 5, 4, 5, 4, 5, 4, 5, 4, 5, 4>>, <<5, 5, 5, 4, 3, 3>>},
      {<<>>, <<4>>},
      {<<>>, <<4>>, <<5>>},
      {<<>>, <<3, 3, 3>>},
      {<<>>, <<3, 3, 3>>}>>

RECURSIVE ReviewsBefore(_, _)
ReviewsBefore(ratings, u) ==
    IF u = 1 THEN 0 ELSE ReviewsBefore(ratings, u - 1) + Len(ratings[u - 1])

\* The rows of reviews for the given ratings, numbered in insertion order
ReviewRows(ratings) ==
    UNION {{[id |-> ReviewsBefore(ratings, u) + j, university_id |-> u,
             rating |-> ratings[u][j],
             comment |-> CHOOSE c \in Comments : TRUE,
             moderation_status |-> "approved",
             created_at |-> ReviewsBefore(ratings, u) + j] :
                j \in 1..Len(ratings[u])} : u \in 1..Len(ratings)}

\* university_stats for these reviews: the row createUniversity inserted,
\* update_university_stats by trg_review_stats, and the summary by the
\* migration's pass over the existing rows (SELECT update_sentiment_summary)
StatsFor(rs, n) ==
    [u \in 1..n |->
        update_sentiment_summary(
            update_university_stats((u :> EmptyStats), rs, u), rs, u, 0)[u]]

InitRank ==
    /\ now = 0
    /\ universities = RankedStore
    /\ countries = {RankedStore[u].country : u \in 1..Len(RankedStore)}
    /\ locations = {<<RankedStore[u].location, RankedStore[u].country>> :
                        u \in 1..Len(RankedStore)}
    /\ university_aliases = <<>>
    /\ ai_normalization_cache = {}
    /\ calls = <<>>
    /\ lastResolve = NoResolve
    /\ race = <<>>
    /\ \E r1 \in RatingProfiles[1], r2 \in RatingProfiles[2],
          r3 \in RatingProfiles[3], r4 \in RatingProfiles[4],
          r5 \in RatingProfiles[5], r6 \in RatingProfiles[6] :
          \E rs \in {ReviewRows(<<r1, r2, r3, r4, r5, r6>>)} :
             /\ reviews = rs
             /\ reviewSeq = Cardinality(rs)
             /\ university_stats = StatsFor(rs, Len(RankedStore))
    /\ chat_cache = {}
    /\ global_chat_cache = <<>>
    /\ chat_cache_unique = TRUE
    /\ generations = 0
    /\ lastChat = NoChat
    /\ lastRead = NoRead
    /\ lastRanking = NoRanking
    /\ inflight = <<>>

\* The queries "best school in kenya", "Top university!" and "is it ok?"
\* (no word longer than two characters), without a region and for the
\* regions "Kenya" and "sri_lanka"
NextRank ==
    \E queryText \in
           {<<"b", "e", "s", "t", " ", "s", "c", "h", "o", "o", "l", " ",
              "i", "n", " ", "k", "e", "n", "y", "a">>,
            <<"T", "o", "p", " ", "u", "n", "i", "v", "e", "r", "s", "i", "t",
              "y", "!">>,
            <<"i", "s", " ", "i", "t", " ", "o", "k", "?">>},
       region \in {NULL, <<"K", "e", "n", "y", "a">>,
                   <<"s", "r", "i", "_", "l", "a", "n", "k", "a">>} :
        CallPreRankUniversities(queryText, region)

SpecRank == InitRank /\ [][NextRank]_vars

\* ------------------------------------------------------------------------
\* dataStore.js addUniversity, one step per awaited call: two invocations
\* for the same request run interleaved.  Every awaited statement succeeds
\* here; the creation transaction becomes visible to the other invocation
\* at COMMIT (READ COMMITTED), and the upserts of countries and locations
\* (ON CONFLICT ... DO UPDATE) never fail on a row the other one inserted.
\* ------------------------------------------------------------------------
\* An invocation that has not run its first statement yet
RaceEntry(data) ==
    [pc |-> "phase1", data |-> data, normalized |-> Deterministic(data),
     seen |-> 0, c |-> 0, pending |-> <<>>, outcome |-> "running", id |-> 0]

\* The candidate is returned after its aliases are inserted; without a
\* candidate the invocation goes on to the creation transaction
RaceMatched(e, normalized, c, outcome, pending) ==
    [e EXCEPT !.pc = "alias", !.normalized = normalized, !.c = c,
              !.seen = Len(universities), !.outcome = outcome,
              !.pending = pending]

\* PHASE 1: await findSimilarWithConfidence(deterministicNorm, 0.7)
RaceLookupHigh(p) ==
    \E facts \in {NameFacts[race[p].data.name]} :
    LET e == race[p]
    IN  /\ e.pc = "phase1"
        /\ IF \E c \in 1..Len(universities) :
                  Phase1Accepts(universities, facts.norm, c)
           THEN \E c \in 1..Len(universities) :
                   /\ Phase1Accepts(universities, facts.norm, c)
                   /\ race' = [race EXCEPT ![p] =
                          RaceMatched(e, e.normalized, c, "phase1",
                                      <<<<e.data.name, facts.norm>>>>)]
           ELSE race' = [race EXCEPT ![p].pc =
                            IF facts.ambiguous THEN "cacheRead" ELSE "lookup"]
        /\ UNCHANGED <<now, universities, countries, locations, university_aliases,
                       ai_normalization_cache, calls, lastResolve,
                       university_stats, feedbackVars, chatVars>>

\* PHASE 2: await getAINormalizationCache(inputHash)
RaceCacheRead(p) ==
    \E facts \in {NameFacts[race[p].data.name]} :
    \E cached \in {getAINormalizationCache(ai_normalization_cache, facts.hash,
                                           now, TRUE)} :
    LET e == race[p]
    IN  /\ e.pc = "cacheRead"
        /\ race' = [race EXCEPT ![p] =
               IF cached # NoRow
               THEN [e EXCEPT !.pc = "lookup",
                        !.normalized =
                            [normalizedName |-> cached.normalized_name,
                             name |-> OrElse(cached.display_name, e.data.name),
                             location |-> OrElse(cached.location, e.data.location),
                             country |-> OrElse(cached.country, e.data.country),
                             usedAI |-> TRUE]]
               ELSE [e EXCEPT !.pc = "service"]]
        /\ UNCHANGED <<now, universities, countries, locations, university_aliases,
                       ai_normalization_cache, calls, lastResolve,
                       university_stats, feedbackVars, chatVars>>

\* PHASE 2: await normalizeUniversityInput(universityData)
RaceNormalize(p, ai) ==
    \E normalized \in {normalizeUniversityInput(race[p].data, ai)} :
        /\ race[p].pc = "service"
        /\ race' = [race EXCEPT ![p].normalized = normalized,
                                ![p].pc = IF normalized.usedAI THEN "cacheWrite"
                                          ELSE "lookup"]
        /\ UNCHANGED <<now, universities, countries, locations, university_aliases,
                       ai_normalization_cache, calls, lastResolve,
                       university_stats, feedbackVars, chatVars>>

\* PHASE 2: await setAINormalizationCache(...)
RaceCacheWrite(p) ==
    \E facts \in {NameFacts[race[p].data.name]} :
    LET e == race[p]
    IN  /\ e.pc = "cacheWrite"
        /\ ai_normalization_cache' =
               setAINormalizationCache(ai_normalization_cache, facts.hash,
                                       e.data.name, e.normalized, now, TRUE)
        /\ race' = [race EXCEPT ![p].pc = "lookup"]
        /\ UNCHANGED <<now, universities, countries, locations, university_aliases,
                       calls, lastResolve, university_stats, feedbackVars,
                       chatVars>>

\* PHASE 2: await findSimilarWithConfidence(normalizedName, 0.4), after the
\* normalization of an ambiguous input or directly for any other input
RaceLookupLow(p) ==
    \E facts \in {NameFacts[race[p].data.name]} :
    LET e == race[p]
        q == e.normalized.normalizedName
        outcome == IF facts.ambiguous THEN "postAI" ELSE "low"
        pending ==
            IF facts.ambiguous /\ q # facts.norm
            THEN <<<<e.data.name, facts.norm>>, <<e.normalized.name, q>>>>
            ELSE <<<<e.data.name, facts.norm>>>>
    IN  /\ e.pc = "lookup"
        /\ IF HasSimilar(universities, q, SIMILARITY_THRESHOLD_LOW)
           THEN \E c \in FirstSimilar(universities, q, SIMILARITY_THRESHOLD_LOW) :
                   race' = [race EXCEPT ![p] =
                               RaceMatched(e, e.normalized, c, outcome, pending)]
           ELSE race' = [race EXCEPT ![p].pc = "create",
                                     ![p].seen = Len(universities)]
        /\ UNCHANGED <<now, universities, countries, locations, university_aliases,
                       ai_normalization_cache, calls, lastResolve,
                       university_stats, feedbackVars, chatVars>>

\* await addAlias(...) for the next alias to insert, then return the candidate
RaceAddAlias(p) ==
    LET e == race[p]
    IN  /\ e.pc = "alias"
        /\ IF e.pending = <<>>
           THEN /\ race' = [race EXCEPT ![p].pc = "done", ![p].id = e.c]
                /\ UNCHANGED university_aliases
           ELSE /\ university_aliases' =
                       addAlias(university_aliases, e.c, Head(e.pending)[1],
                                Head(e.pending)[2], TRUE)
                /\ race' = [race EXCEPT ![p].pending = Tail(e.pending)]
        /\ UNCHANGED <<now, universities, countries, locations,
                       ai_normalization_cache, calls, lastResolve,
                       university_stats, feedbackVars, chatVars>>

\* PHASE 3 with a UNIQUE constraint on universities.normalized_name: the
\* INSERT of a second row of the same normalized name fails and the
\* transaction is rolled back
RaceCreate_UniqueName(p) ==
    LET e == race[p]
        id == Len(universities) + 1
        taken == \E u \in 1..Len(universities) :
                    universities[u].normalized_name = e.normalized.normalizedName
    IN  /\ e.pc = "create"
        /\ IF taken
           THEN /\ race' = [race EXCEPT ![p].pc = "done", ![p].outcome = "error"]
                /\ UNCHANGED <<universities, university_stats>>
           ELSE /\ universities' = Append(universities,
                       [id |-> id, name |-> e.normalized.name,
                        normalized_name |-> e.normalized.normalizedName,
                        location |-> NULL, country |-> NULL])
                /\ university_stats' = university_stats @@ (id :> EmptyStats)
                /\ race' = [race EXCEPT ![p].pc = "done",
                                        ![p].outcome = "created", ![p].id = id]
        /\ UNCHANGED <<now, countries, locations, university_aliases,
                       ai_normalization_cache, calls, lastResolve, feedbackVars,
                       chatVars>>

\* PHASE 3: BEGIN, the upserts of the country and the location, INSERT INTO
\* universities, INSERT INTO university_stats, COMMIT
RaceCreate(p) ==
    LET e == race[p]
        country == OrElse(e.normalized.country, e.data.country)
        hasCountry == ~Falsy(country)
        location == OrElse(e.normalized.location, e.data.location)
        hasLocation == ~Falsy(location) /\ hasCountry
        id == Len(universities) + 1
        row == [id |-> id, name |-> e.normalized.name,
                normalized_name |-> e.normalized.normalizedName,
                location |-> IF hasLocation THEN location ELSE NULL,
                country |-> IF hasLocation THEN country ELSE NULL]
    IN  /\ e.pc = "create"
        /\ countries' = IF hasCountry THEN countries \cup {country} ELSE countries
        /\ locations' = IF hasLocation THEN locations \cup {<<location, country>>}
                        ELSE locations
        /\ universities' = Append(universities, row)
        /\ university_stats' =
               IF id \in DOMAIN university_stats THEN university_stats
               ELSE university_stats @@ (id :> EmptyStats)
        /\ race' = [race EXCEPT ![p].pc = "done", ![p].outcome = "created",
                                ![p].id = id]
        /\ UNCHANGED <<now, university_aliases, ai_normalization_cache, calls,
                       lastResolve, feedbackVars, chatVars>>

\* Two invocations for one request body, on the empty store or on the store
\* that holds "Al Akhawayn University"
InitRace ==
    /\ now = 0
    /\ \/ /\ universities = <<>>
          /\ university_stats = <<>>
          /\ countries = {}
          /\ locations = {}
       \/ /\ universities = <<SeedUniversity>>
          /\ university_stats = (1 :> EmptyStats)
          /\ countries = {T_Morocco}
          /\ locations = {<<T_Ifrane, T_Morocco>>}
    /\ university_aliases = <<>>
    /\ ai_normalization_cache = {}
    /\ calls = <<>>
    /\ lastResolve = NoResolve
    /\ \E data \in Requests : race = <<RaceEntry(data), RaceEntry(data)>>
    /\ reviews = {}
    /\ reviewSeq = 0
    /\ chat_cache = {}
    /\ global_chat_cache = <<>>
    /\ chat_cache_unique = FALSE
    /\ generations = 0
    /\ lastChat = NoChat
    /\ lastRead = NoRead
    /\ lastRanking = NoRanking
    /\ inflight = <<>>

NextRace ==
    \E p \in DOMAIN race :
        \/ RaceLookupHigh(p)
        \/ RaceCacheRead(p)
        \/ \E ai \in AIOutcomes : RaceNormalize(p, ai)
        \/ RaceCacheWrite(p)
        \/ RaceLookupLow(p)
        \/ RaceAddAlias(p)
        \/ RaceCreate(p)

SpecRace == InitRace /\ [][NextRace]_vars

\* The store two interleaved invocations for "Oxford" leave behind (two rows
\* of the normalized name "oxford"), after one approved review of the first
InitTie ==
    /\ now = 0
    /\ universities =
           <<[id |-> 1, name |-> T_Oxford, normalized_name |-> basicNormalize(T_Oxford),
              location |-> T_Ifrane, country |-> T_Morocco],
             [id |-> 2, name |-> T_Oxford, normalized_name |-> basicNormalize(T_Oxford),
              location |-> T_Ifrane, country |-> T_Morocco]>>
    /\ countries = {T_Morocco}
    /\ locations = {<<T_Ifrane, T_Morocco>>}
    /\ university_aliases = <<>>
    /\ ai_normalization_cache = {}
    /\ calls = <<>>
    /\ lastResolve = NoResolve
    /\ race = <<>>
    /\ reviews = {SeedReview}
    /\ reviewSeq = 1
    /\ university_stats =
           ReviewTriggers((1 :> EmptyStats) @@ (2 :> EmptyStats), {SeedReview}, 1, 0)
    /\ chat_cache = {}
    /\ global_chat_cache = <<>>
    /\ chat_cache_unique = FALSE
    /\ generations = 0
    /\ lastChat = NoChat
    /\ lastRead = NoRead
    /\ lastRanking = NoRanking
    /\ inflight = <<>>

SpecTie == InitTie /\ [][NextResolve]_vars

\* ------------------------------------------------------------------------
\* Reviews of a university that already has some: the first university has
\* a pending review rated 5 and two approved reviews (rated 5, then 4), the
\* second has one approved review rated 5; all are older than any review
\* the handlers below insert, and each digest is the one the insertions left
\* ------------------------------------------------------------------------
InitDigest ==
    LET r0 == [id |-> -3, university_id |-> 1, rating |-> 5,
               comment |-> [text |-> "unmoderated", length |-> 20],
               moderation_status |-> "pending", created_at |-> -3]
        r1 == [id |-> -2, university_id |-> 1, rating |-> 5,
               comment |-> [text |-> "first", length |-> 90],
               moderation_status |-> "approved", created_at |-> -2]
        r2 == [id |-> -1, university_id |-> 1, rating |-> 4,
               comment |-> [text |-> "second", length |-> 30],
               moderation_status |-> "approved", created_at |-> -1]
        r3 == [id |-> 0, university_id |-> 2, rating |-> 5,
               comment |-> [text |-> "other", length |-> 50],
               moderation_status |-> "approved", created_at |-> 0]
        s0 == ReviewTriggers((1 :> EmptyStats) @@ (2 :> EmptyStats), {r0}, 1, 0)
        s1 == ReviewTriggers(s0, {r0, r1}, 1, 0)
        s2 == ReviewTriggers(s1, {r0, r1, r2}, 1, 0)
    IN  /\ now = 0
        /\ universities = <<SeedUniversity, SecondUniversity>>
        /\ university_stats = ReviewTriggers(s2, {r0, r1, r2, r3}, 2, 0)
        /\ countries = {T_Morocco}
        /\ locations = {<<T_Ifrane, T_Morocco>>}
        /\ university_aliases = <<>>
        /\ ai_normalization_cache = {}
        /\ calls = <<>>
        /\ lastResolve = NoResolve
        /\ race = <<>>
        /\ reviews = {r0, r1, r2, r3}
        /\ reviewSeq = 0
        /\ chat_cache = {}
        /\ global_chat_cache = <<>>
        /\ chat_cache_unique = FALSE
        /\ generations = 0
        /\ lastChat = NoChat
        /\ lastRead = NoRead
        /\ lastRanking = NoRanking
        /\ inflight = <<>>

\* Admin requests on the reviews of the first university: a new approved
\* review of any rating, the approval of the pending one, a deletion
NextDigest ==
    \/ \E rating \in 1..5,
          comment \in {[text |-> "long", length |-> 100],
                       [text |-> "short", length |-> 12]} :
          AdminCreateReview(1, rating, comment, Absent)
    \/ AdminUpdateReview(-3, Absent, Absent, Given("approved"))
    \/ \E id \in -1..MaxInserts : AdminDeleteReview(id)

SpecDigest == InitDigest /\ [][NextDigest]_vars

\* The empty store with a normalization-cache row for "AUI" that expires
\* now: written 7 days ago from the reply "Al Akhawayn" (Rabat, Morocco) of
\* the reasoning service, for a request whose transaction failed
InitStale ==
    /\ now = 0
    /\ universities = <<>>
    /\ university_stats = <<>>
    /\ countries = {}
    /\ locations = {}
    /\ university_aliases = <<>>
    /\ ai_normalization_cache =
           {[input_hash |-> NameFacts[T_AUI].hash, input_text |-> T_AUI,
             normalized_name |-> T_AlAkhawayn, display_name |-> T_AlAkhawayn,
             location |-> T_Rabat, country |-> T_Morocco, expires_at |-> 0]}
    /\ calls = <<>>
    /\ lastResolve = NoResolve
    /\ race = <<>>
    /\ reviews = {}
    /\ reviewSeq = 0
    /\ chat_cache = {}
    /\ global_chat_cache = <<>>
    /\ chat_cache_unique = FALSE
    /\ generations = 0
    /\ lastChat = NoChat
    /\ lastRead = NoRead
    /\ lastRanking = NoRanking
    /\ inflight = <<>>

SpecStale == InitStale /\ [][NextResolve]_vars

\* Chat requests while the answer-generation service may fail
\* (model.generateContent throws, or no API key is configured): one query
\* text in two spellings, about the stored university or global, every
\* database statement succeeding
NextOutage ==
    \/ \E query \in Queries, universityId \in Optional({1}),
          gen \in {"text", "throws"} :
          chat(query, universityId, NULL, TRUE, TRUE, gen, TRUE)
    \/ AdvanceClock(CHAT_TTL \div 2)

SpecOutage == InitChat /\ [][NextOutage]_vars

\* Chat requests and review mutations about one university, every
\* statement succeeding: the question "dorms" about the university or
\* global, reviews rated 1 submitted, and the latest review raised to 5 or
\* deleted by the admin; the clock advances by 8 hours
NextAnswers ==
    \/ \E universityId \in Optional({1}) :
          chat(T_dorms, universityId, NULL, TRUE, TRUE, "text", TRUE)
    \/ \E comment \in Comments : SubmitReview(1, 1, comment, TRUE)
    \/ AdminUpdateReview(reviewSeq, Given(5), Absent, Absent)
    \/ AdminDeleteReview(reviewSeq)
    \/ AdvanceClock(CHAT_TTL \div 3)

SpecAnswers == InitChat /\ [][NextAnswers]_vars

\* ------------------------------------------------------------------------
\* POST /api/ai/chat about a university, one step per awaited call: two
\* requests run interleaved.  Every statement reaches the database; each
\* statement is its own transaction, and with the unique index the second
\* of two INSERT ... ON CONFLICT DO UPDATE statements updates the row the
\* first inserted.
\* ------------------------------------------------------------------------
\* A request for university 1 that has loaded the university
FlightEntry(query) ==
    [pc |-> "read", query |-> query, status |-> 0, response |-> NoResponse,
     cached |-> FALSE, wrote |-> 0]

\* The requests that have run their cacheResponse statement
Written == {p \in DOMAIN inflight : inflight[p].wrote > 0}

\* await getCachedResponse(universityId, queryHash), inside try/catch
FlightRead(p) ==
    \E lookup \in {TryGetCachedResponse(chat_cache, 1,
                       QueryHash[inflight[p].query], now, TRUE)} :
        /\ inflight[p].pc = "read"
        /\ IF lookup.rows # {}
           THEN \E r \in lookup.rows :
                   inflight' = [inflight EXCEPT ![p].pc = "done",
                                                ![p].status = 200,
                                                ![p].cached = TRUE,
                                                ![p].response = r.response_text]
           ELSE inflight' = [inflight EXCEPT ![p].pc = "generate"]
        /\ UNCHANGED <<now, resolveVars, university_stats, feedbackVars,
                       chat_cache, global_chat_cache, chat_cache_unique,
                       generations, lastChat, lastRead, lastRanking>>

\* await generateInsight(userQuery, name, stats, sentimentSummary)
FlightGenerate(p) ==
    /\ inflight[p].pc = "generate"
    /\ generations' = generations + 1
    /\ inflight' = [inflight EXCEPT ![p].pc = "write",
                       ![p].response = generateInsight("text", generations + 1)]
    /\ UNCHANGED <<now, resolveVars, university_stats, feedbackVars,
                   chat_cache, global_chat_cache, chat_cache_unique, lastChat,
                   lastRead, lastRanking>>

\* await cacheResponse(...) inside try/catch, then res.json({response,
\* cached: false})
FlightWrite(p) ==
    \E written \in {TryCacheResponse(chat_cache, chat_cache_unique, 1,
                        QueryHash[inflight[p].query], inflight[p].query,
                        inflight[p].response, now, TRUE)} :
        /\ inflight[p].pc = "write"
        /\ chat_cache' = written.rows
        /\ inflight' = [inflight EXCEPT
               ![p].pc = "done",
               ![p].status = IF written.threw THEN 500 ELSE 200,
               ![p].wrote = Cardinality(Written) + 1]
        /\ UNCHANGED <<now, resolveVars, university_stats, feedbackVars,
                       global_chat_cache, chat_cache_unique, generations,
                       lastChat, lastRead, lastRanking>>

\* Two requests about the seeded university, each in one of the spellings
\* of the question, on a cache that is empty or holds the answer of a day
\* ago, with or without the unique index
InitFlights ==
    /\ now = 0
    /\ universities = <<SeedUniversity>>
    /\ countries = {T_Morocco}
    /\ locations = {<<T_Ifrane, T_Morocco>>}
    /\ university_aliases = <<>>
    /\ ai_normalization_cache = {}
    /\ calls = <<>>
    /\ lastResolve = NoResolve
    /\ race = <<>>
    /\ \/ /\ reviews = {}
          /\ reviewSeq = 0
          /\ university_stats = (1 :> EmptyStats)
       \/ /\ reviews = {SeedReview}
          /\ reviewSeq = 1
          /\ university_stats =
                 ReviewTriggers((1 :> EmptyStats), {SeedReview}, 1, 0)
    /\ chat_cache_unique \in BOOLEAN
    /\ \/ chat_cache = {}
       \/ /\ chat_cache_unique
          /\ chat_cache = {[university_id |-> 1, query_hash |-> QueryHash[T_dorms],
                            query_text |-> T_dorms,
                            response_text |-> GeneratedText(0),
                            expires_at |-> 0]}
    /\ global_chat_cache = <<>>
    /\ generations = 0
    /\ lastChat = NoChat
    /\ lastRead = NoRead
    /\ lastRanking = NoRanking
    /\ \E q1 \in Queries, q2 \in Queries :
          inflight = <<FlightEntry(q1), FlightEntry(q2)>>

NextFlights ==
    \E p \in DOMAIN inflight :
        \/ FlightRead(p)
        \/ FlightGenerate(p)
        \/ FlightWrite(p)

SpecFlights == InitFlights /\ [][NextFlights]_vars

\* Every handler and every clock step
Next ==
    \/ NextResolve
    \/ NextFeedback
    \/ NextChat
    \/ NextCaches
    \/ NextKeys
    \/ NextRank
    \/ NextRace
    \/ NextDigest
    \/ NextOutage
    \/ NextAnswers
    \/ NextFlights

Spec == Init /\ [][Next]_vars

\* ------------------------------------------------------------------------
\* Properties of the resolution engine
\* ------------------------------------------------------------------------
\* The universities table as the i-th call found it (rows are only appended)
StoreBefore(i) == SubSeq(universities, 1, calls[i].before)

Returned(i) == calls[i].outcome # "error"

\* C1: resolving X and then X again never creates a second entity, and the
\* second call returns isExisting = true with the id the first call returned,
\* whatever the reasoning service and the normalization cache did in between.
C1_Idempotence ==
    \A i \in 2..Len(calls) :
        (calls[i].input = calls[i - 1].input /\ Returned(i - 1) /\ Returned(i))
            => /\ calls[i].isExisting
               /\ calls[i].id = calls[i - 1].id
               /\ calls[i].after = calls[i].before

\* The run started from the store that holds the one seeded entity
SeededStart ==
    IF calls = <<>> THEN Len(universities) = 1 ELSE calls[1].before = 1

SpellingVariants == {T_AUI, T_al_akhawayn_hyphen, T_AL_AKHAWAYN}

BestRows(unis, q) ==
    {i \in 1..Len(unis) :
        \A j \in 1..Len(unis) :
            SimScore(unis[j], q).num * SimScore(unis[i], q).den
                <= SimScore(unis[i], q).num * SimScore(unis[j], q).den}

ScoreIsExactly(score, pct) == 100 * score.num = pct * score.den

\* C3: a top candidate scoring exactly 0.70 is accepted at phase 1, and a top
\* score below 0.70 is not accepted at phase 1.
C3_ThresholdBoundary ==
    \A i \in 1..Len(calls) :
        LET q == NameFacts[calls[i].input].norm
            best == BestRows(StoreBefore(i), q)
        IN  Returned(i) =>
              \A b \in best :
                /\ ScoreIsExactly(SimScore(universities[b], q), SIMILARITY_THRESHOLD)
                      => (calls[i].outcome = "phase1" /\ calls[i].id \in best)
                /\ ~ScoreAtLeast(SimScore(universities[b], q), SIMILARITY_THRESHOLD)
                      => calls[i].outcome # "phase1"

\* C4: the candidate lookup also matches alias texts, so the text of every
\* alias row finds the alias's entity as a candidate.
C4_AliasesSearched ==
    \A k \in 1..Len(university_aliases) :
        university_aliases[k].university_id \in
            SimilarRows(universities, university_aliases[k].normalized_alias,
                        SIMILARITY_THRESHOLD_LOW)

\* ------------------------------------------------------------------------
\* Properties of the review aggregates
\* ------------------------------------------------------------------------
\* The approved reviews of a university, from the reviews table
CurrentlyApproved(u) ==
    {r \in reviews : r.university_id = u /\ r.moderation_status = "approved"}

\* The tone of the exact mean of a set of reviews (mean 0 when it is empty)
ToneOfMean(rows) ==
    IF rows # {} /\ SumRatings(rows) >= 4 * Cardinality(rows) THEN "positive"
    ELSE IF rows # {} /\ SumRatings(rows) >= 3 * Cardinality(rows) THEN "mixed"
    ELSE "critical"

\* C5: once a review mutation has recomputed a university's digest, the
\* stored tone is the tone of the average over its currently approved
\* reviews, and the positive sample is the sentinel exactly when no approved
\* review is rated 4 or more.
C5_DigestConsistency ==
    \A u \in DOMAIN university_stats :
        LET digest == university_stats[u].sentiment_summary
        IN  digest.tone # "null" =>
              /\ digest.tone = ToneOfMean(CurrentlyApproved(u))
              /\ (digest.positivePhrases.sentinel = "No positive reviews yet")
                     <=> ~\E r \in CurrentlyApproved(u) : r.rating >= 4

\* C6: every stats row counts the approved reviews of its university and
\* holds their mean rounded to one decimal (the nearest tenth; 0 when there
\* is none).
C6_StatsConsistency ==
    \A u \in DOMAIN university_stats :
        LET rows == CurrentlyApproved(u)
            n == Cardinality(rows)
            tenths == university_stats[u].average_rating
            diff == 10 * SumRatings(rows) - tenths * n
        IN  /\ university_stats[u].total_reviews = n
            /\ n = 0 => tenths = 0
            /\ n > 0 => (2 * diff <= n /\ -2 * diff <= n)

\* A university with three approved reviews whose mean is not a whole number
\* of tenths, counted by its stats row
C6_Witness ==
    \E u \in DOMAIN university_stats :
        LET rows == CurrentlyApproved(u)
        IN  /\ Cardinality(rows) = 3
            /\ (10 * SumRatings(rows)) % 3 # 0
            /\ university_stats[u].total_reviews = 3

\* ------------------------------------------------------------------------
\* Properties of the response caches
\* ------------------------------------------------------------------------
\* A request follows, with the same cache key, a request that was answered
\* with a generated text; neither met a failing connection
RepeatedRequest ==
    /\ lastChat.seq > 0
    /\ lastChat'.seq = lastChat.seq + 1
    /\ lastChat'.key = lastChat.key
    /\ lastChat.status = 200 /\ lastChat.generated
    /\ lastChat'.status = 200
    /\ ~lastChat.cacheFault /\ ~lastChat'.cacheFault

\* C7: a request repeating the key of the request before it, made while the
\* entry written by that request has not expired, does not invoke the
\* generator and is served from the cache the text generated before; made
\* once the entry has expired, it invokes the generator again.
C7_CacheAside ==
    [][RepeatedRequest =>
          IF now < lastChat.at + CHAT_TTL
          THEN /\ generations' = generations
               /\ lastChat'.cached
               /\ lastChat'.response = lastChat.response
          ELSE /\ generations' = generations + 1
               /\ lastChat'.generated]_vars

\* C8: the entity-scoped cache holds at most one row per (university_id,
\* query_hash) and the global cache at most one row per (query_hash, region),
\* the absent region being one region.
C8_OneRowPerKey ==
    /\ \A r1, r2 \in chat_cache :
          (r1.university_id = r2.university_id /\ r1.query_hash = r2.query_hash)
              => r1 = r2
    /\ \A i, j \in 1..Len(global_chat_cache) :
          (/\ global_chat_cache[i].query_hash = global_chat_cache[j].query_hash
           /\ global_chat_cache[i].region = global_chat_cache[j].region)
              => i = j

\* C9: an entry a read of the normalization cache, the entity chat cache or
\* the global chat cache returned expires strictly after the time of the
\* read.
C9_LazyExpiry ==
    lastRead.found => lastRead.expires_at > lastRead.at

\* A read of the entity chat cache at the very instant a stored row of the
\* key expires returned nothing
C9_Witness ==
    /\ lastRead.cache = "chat_cache"
    /\ lastRead.stored
    /\ ~lastRead.found
    /\ lastRead.expires_at = lastRead.at
    /\ lastRead.at > 0

\* A cache statement of the request just answered failed: for a reason
\* outside the program, or because chat_cache has no unique index for the
\* conflict target of the statement cacheResponse issues
CacheCallFailed ==
    \/ lastChat.cacheFault
    \/ /\ lastChat.key.universityId.present
       /\ lastChat.generated
       /\ ~chat_cache_unique

\* C10: a request whose cache read or cache write failed, and whose other
\* database statements succeeded, is answered with status 200 and an answer
\* not taken from the cache: the text generated for it, or the
\* insufficient-data message when no university could be ranked.
C10_CacheAdvisory ==
    (CacheCallFailed /\ ~lastChat.dbFailed) =>
        /\ lastChat.status = 200
        /\ ~lastChat.cached
        /\ IF lastChat.generated
           THEN lastChat.response = GeneratedText(generations)
           ELSE lastChat.response =
                    Fallback("I don't have enough data yet to answer that.")

\* An entity-scoped request met a failing connection on a cache statement
\* and was answered with the text generated for it
C10_Witness ==
    /\ lastChat.cacheFault
    /\ lastChat.key.universityId.present
    /\ lastChat.status = 200
    /\ lastChat.generated
    /\ lastChat.response = GeneratedText(generations)

\* The words of a request of the cache: a university, a query hash, a region
KeyHashes == {QueryHash[q] : q \in KeyQueries}

\* C11: whatever the caches hold, the rows a read of the entity cache
\* returns for (university E, hash h) are rows stored under E and h, and the
\* rows a read of the global cache returns for (hash h, region R) are rows
\* stored under h and R, the absent region matching only the absent region.
C11_KeyIsolation ==
    /\ \A E \in 1..Len(universities), h \in KeyHashes :
          \A r \in getCachedResponse(chat_cache, E, h, now, TRUE).rows :
              r.university_id = E /\ r.query_hash = h
    /\ \A h \in KeyHashes, R \in KeyRegions :
          \A r \in getCachedGlobalResponse(global_chat_cache, h, R, now, TRUE).rows :
              r.query_hash = h /\ r.region = R

\* Both caches hold answers under two keys that differ in one word (the
\* university, the region), with different texts, and a read has just
\* returned an entry
C11_Witness ==
    /\ lastRead.found
    /\ \/ \E r1, r2 \in chat_cache :
             /\ r1.university_id # r2.university_id
             /\ r1.query_hash = r2.query_hash
             /\ r1.response_text # r2.response_text
       \/ \E i, j \in 1..Len(global_chat_cache) :
             /\ global_chat_cache[i].region # global_chat_cache[j].region
             /\ global_chat_cache[i].query_hash = global_chat_cache[j].query_hash
             /\ global_chat_cache[i].response_text # global_chat_cache[j].response_text

\* ------------------------------------------------------------------------
\* Properties of the phases of a resolution
\* ------------------------------------------------------------------------
\* The phase-1 lookup of the i-th call returned a row: a stored entity
\* scores above 0.70 against the deterministic normalization of the input
Phase1Found(i) ==
    \E c \in 1..calls[i].before :
        ScoreAbove(SimScore(universities[c], NameFacts[calls[i].input].norm),
                   SIMILARITY_THRESHOLD)

\* C12: a call invokes the reasoning service only when its phase-1 lookup
\* found nothing and its input is ambiguous; a call on a non-ambiguous input
\* never invokes it, keeps the deterministic normalization, and either
\* returns an existing entity that scores above 0.40 or creates an entity
\* under the deterministic normalization (or fails in the creation).
C12_AmbiguityGate ==
    \A i \in 1..Len(calls) :
        LET facts == NameFacts[calls[i].input]
        IN  /\ calls[i].serviceCalled => (facts.ambiguous /\ ~Phase1Found(i))
            /\ ~facts.ambiguous =>
                  /\ ~calls[i].serviceCalled
                  /\ ~calls[i].usedAI
                  /\ calls[i].resolved = facts.norm
                  /\ calls[i].outcome \in {"phase1", "low", "created", "error"}
                  /\ calls[i].isExisting =>
                        calls[i].id \in SimilarRows(StoreBefore(i), facts.norm,
                                                    SIMILARITY_THRESHOLD_LOW)
                  /\ calls[i].outcome = "created" =>
                        universities[calls[i].id].normalized_name = facts.norm

\* A non-ambiguous input created an entity without the service, and the next
\* call, on an ambiguous input phase 1 found nothing for, invoked the service
C12_Witness ==
    /\ Len(calls) = 2
    /\ ~NameFacts[calls[1].input].ambiguous
    /\ calls[1].outcome = "created"
    /\ ~calls[1].serviceCalled
    /\ NameFacts[calls[2].input].ambiguous
    /\ calls[2].serviceCalled

\* The last call, and what failed in it.  Its input was ambiguous and phase
\* 1 found nothing, so the normalization cache was read; the read missed, so
\* normalizeUniversityInput was called.
LastCall == calls[Len(calls)]

ReachedPhase2 ==
    /\ calls # <<>>
    /\ NameFacts[LastCall.input].ambiguous
    /\ LastCall.outcome # "phase1"

ServiceFailed ==
    /\ ReachedPhase2
    /\ ~LastCall.cacheHit
    /\ lastResolve.ai = "failed"

CacheReadFailed == ReachedPhase2 /\ ~lastResolve.cacheReadOk

CacheWriteFailed == ReachedPhase2 /\ ~lastResolve.cacheWriteOk

\* The call ended with an existing entity or with the entity it created
EndedWithEntity ==
    \/ /\ LastCall.outcome = "postAI"
       /\ LastCall.id \in 1..LastCall.before
       /\ LastCall.after = LastCall.before
    \/ /\ LastCall.outcome = "created"
       /\ LastCall.after = LastCall.before + 1
       /\ LastCall.id = LastCall.after

C14_MissIsCached ==
    [][(/\ calls' # calls
        /\ ReachedPhase2'
        /\ ~LastCall'.cacheHit
        /\ lastResolve'.cacheWriteOk)
         => \E r \in ai_normalization_cache' :
               /\ r.input_hash = NameFacts[LastCall'.input].hash
               /\ r.normalized_name = LastCall'.resolved
               /\ r.expires_at = now + NORMALIZATION_TTL]_vars

\* ------------------------------------------------------------------------
\* Properties of the alias table
\* ------------------------------------------------------------------------
\* C15: the alias table never holds two rows with the same entity id and the
\* same normalized alias text.
C15_AliasInsertIdempotent ==
    \A j, k \in 1..Len(university_aliases) :
        (/\ university_aliases[j].university_id = university_aliases[k].university_id
         /\ university_aliases[j].normalized_alias = university_aliases[k].normalized_alias)
            => j = k

\* C16: no two alias rows with the same normalized alias text reference
\* different entities.
C16_AliasOwnership ==
    \A j, k \in 1..Len(university_aliases) :
        university_aliases[j].normalized_alias = university_aliases[k].normalized_alias
            => university_aliases[j].university_id = university_aliases[k].university_id

\* ------------------------------------------------------------------------
\* Properties of the creation of an entity
\* ------------------------------------------------------------------------
\* The rows the 0.40 lookup of the i-th call, on the normalized name the call
\* went on with, can return
LowCandidates(i) ==
    {c \in 1..calls[i].before :
        ScoreAbove(SimScore(universities[c], calls[i].resolved),
                   SIMILARITY_THRESHOLD_LOW)}

\* C17: a call inserts a university only when its phase-1 lookup found
\* nothing and the 0.40 lookup on its final normalized name found nothing;
\* a call one of whose lookups found a candidate returns a candidate with
\* isExisting = true and inserts nothing; no call inserts more than one.
C17_CreatedOnlyOnNoMatch ==
    \A i \in 1..Len(calls) :
        /\ calls[i].after \in {calls[i].before, calls[i].before + 1}
        /\ calls[i].after # calls[i].before =>
              /\ calls[i].outcome = "created"
              /\ ~Phase1Found(i)
              /\ LowCandidates(i) = {}
        /\ (Phase1Found(i) \/ LowCandidates(i) # {}) =>
              /\ calls[i].isExisting
              /\ calls[i].id \in LowCandidates(i)
              /\ calls[i].after = calls[i].before

\* One call created an entity on finding no candidate, and the next call, on
\* an input whose final normalized name scores between 0.40 and 0.70
\* against it, returned it
C17_Witness ==
    /\ Len(calls) = 2
    /\ calls[1].outcome = "created"
    /\ calls[2].outcome \in {"low", "postAI"}
    /\ calls[2].id = calls[1].id
    /\ ~Phase1Found(2)
    /\ Len(universities) = calls[1].after

\* C18: a call that returns isExisting = false has appended exactly one
\* university and added exactly one stats row, for that university, with
\* total_reviews 0; a call in which a statement of the creation transaction
\* failed ends in an error and leaves the universities, stats, countries and
\* locations tables as it found them; either way the pooled connection the
\* call took has been released.
C18_CreationAtomic ==
    [][calls' # calls =>
          /\ (LastCall'.outcome = "error") <=> ~lastResolve'.txOk
          /\ lastResolve'.client # "none" => lastResolve'.client = "released"
          /\ (LastCall'.outcome = "error" \/ ~LastCall'.isExisting) =>
                lastResolve'.client = "released"
          /\ LastCall'.outcome = "error" =>
                UNCHANGED <<universities, university_stats, countries, locations>>
          /\ (LastCall'.outcome # "error" /\ ~LastCall'.isExisting) =>
                /\ LastCall'.id = Len(universities) + 1
                /\ Len(universities') = Len(universities) + 1
                /\ SubSeq(universities', 1, Len(universities)) = universities
                /\ universities'[LastCall'.id].id = LastCall'.id
                /\ LastCall'.id \notin DOMAIN university_stats
                /\ DOMAIN university_stats' =
                       DOMAIN university_stats \cup {LastCall'.id}
                /\ university_stats'[LastCall'.id].total_reviews = 0
                /\ \A u \in DOMAIN university_stats :
                       university_stats'[u] = university_stats[u]]_vars

\* A creation failed on a store that did not hold the country and location
\* of the request, and a later call created the entity
C18_Witness ==
    /\ Len(calls) = 2
    /\ calls[1].outcome = "error"
    /\ calls[1].before = 0
    /\ calls[2].outcome = "created"
    /\ Len(universities) = 1
    /\ DOMAIN university_stats = {1}
    /\ university_stats[1].total_reviews = 0

\* ------------------------------------------------------------------------
\* Properties of the candidate ranking
\* ------------------------------------------------------------------------
\* The score of the claim for the entity with this id and the last call's
\* query and region, in hundredths:
\* 0.4 * averageRating + 0.3 * min(totalCount / 10, 2) + the two bonuses
ScoreOf(id) ==
    4 * university_stats[id].average_rating
        + (IF university_stats[id].total_reviews < 20
           THEN 3 * university_stats[id].total_reviews ELSE 60)
        + RegionBonus(universities[id], lastRanking.region)
        + KeywordBonus(universities[id], Patterns(lastRanking.queryText))

\* The entities with totalCount > 0
Qualifying ==
    {id \in 1..Len(universities) : university_stats[id].total_reviews > 0}

\* The ids of the rows the last call returned
RankedIds == {lastRanking.rows[k].id : k \in 1..Len(lastRanking.rows)}

\* C19: a ranking holds at most 5 entities (all of them when there are at
\* most 5 with totalCount > 0), each once and each with totalCount > 0, in
\* the order of the score descending and, for equal scores, of the
\* averageRating descending; an entity left out precedes none that is
\* returned; with every totalCount 0 the ranking is empty
C19_RankingOrder ==
    lastRanking.called =>
        /\ Len(lastRanking.rows) <= 5
        /\ Len(lastRanking.rows) =
               (IF Cardinality(Qualifying) < 5 THEN Cardinality(Qualifying) ELSE 5)
        /\ Cardinality(RankedIds) = Len(lastRanking.rows)
        /\ RankedIds \subseteq Qualifying
        /\ \A j, k \in 1..Len(lastRanking.rows) :
              j < k =>
                 \/ ScoreOf(lastRanking.rows[j].id) > ScoreOf(lastRanking.rows[k].id)
                 \/ /\ ScoreOf(lastRanking.rows[j].id) = ScoreOf(lastRanking.rows[k].id)
                    /\ university_stats[lastRanking.rows[j].id].average_rating
                           >= university_stats[lastRanking.rows[k].id].average_rating
        /\ \A out \in Qualifying \ RankedIds, in \in RankedIds :
              \/ ScoreOf(in) > ScoreOf(out)
              \/ /\ ScoreOf(in) = ScoreOf(out)
                 /\ university_stats[in].average_rating
                        >= university_stats[out].average_rating
        /\ (Qualifying = {}) => lastRanking.rows = <<>>

\* Six entities have reviews, five are returned, and two of them have the
\* same score and different averages
C19_Witness ==
    /\ lastRanking.called
    /\ Cardinality(Qualifying) = 6
    /\ Len(lastRanking.rows) = 5
    /\ \E k \in 1..4 :
          /\ ScoreOf(lastRanking.rows[k].id) = ScoreOf(lastRanking.rows[k + 1].id)
          /\ lastRanking.rows[k].avgRating > lastRanking.rows[k + 1].avgRating

\* text contains part, letters compared in either case and every other
\* character as itself
ContainsIgnoreCase(text, part) ==
    /\ text # NULL
    /\ \E i \in 0..(Len(text) - Len(part)) :
          \A j \in 1..Len(part) : LowerChar(text[i + j]) = LowerChar(part[j])

\* A is returned before B, or B is not returned
RanksAboveOrOmits(a, b) ==
    \/ b \notin RankedIds
    \/ \E j, k \in 1..Len(lastRanking.rows) :
          /\ j < k
          /\ lastRanking.rows[j].id = a
          /\ lastRanking.rows[k].id = b

\* A's country contains the region of the last call and B's does not, both
\* have reviews, and A's average and count are at least B's
RegionFavours(a, b) ==
    /\ ContainsIgnoreCase(universities[a].country, lastRanking.region)
    /\ ~ContainsIgnoreCase(universities[b].country, lastRanking.region)
    /\ a \in Qualifying /\ b \in Qualifying
    /\ university_stats[a].average_rating >= university_stats[b].average_rating
    /\ university_stats[a].total_reviews >= university_stats[b].total_reviews

\* C20: in a ranking for region R, an entity whose country contains R
\* (case-insensitively) ranks above, or displaces, every entity whose
\* country does not and whose averageRating and totalCount are no higher,
\* whatever the keyword bonuses are
C20_RegionPreference ==
    (lastRanking.called /\ ~Falsy(lastRanking.region)) =>
        \A a, b \in 1..Len(universities) :
            RegionFavours(a, b) => RanksAboveOrOmits(a, b)

\* The same for a region that holds letters only
RegionPreferenceOfPlainRegion ==
    (/\ lastRanking.called
     /\ ~Falsy(lastRanking.region)
     /\ \A i \in 1..Len(lastRanking.region) :
           IsLower(lastRanking.region[i]) \/ IsUpper(lastRanking.region[i])) =>
        \A a, b \in 1..Len(universities) :
            RegionFavours(a, b) => RanksAboveOrOmits(a, b)

\* The example: A (4.5, 12 reviews, Kenya) and B (3.0, 3 reviews, Morocco,
\* the only one of the two with a keyword of the query in its name) ranked
\* for region "Kenya"
PlainRegionExample ==
    /\ lastRanking.called
    /\ lastRanking.region = universities[2].country
    /\ KeywordBonus(universities[1], Patterns(lastRanking.queryText)) = 100
    /\ KeywordBonus(universities[2], Patterns(lastRanking.queryText)) = 0
    /\ university_stats[2].average_rating = 45
    /\ university_stats[2].total_reviews = 12
    /\ university_stats[1].average_rating = 30
    /\ university_stats[1].total_reviews = 3
    /\ RegionFavours(2, 1)
    /\ {1, 2} \subseteq RankedIds

\* ------------------------------------------------------------------------
\* Properties of the chat handler on global queries
\* ------------------------------------------------------------------------
\* No university has a review counted in its stats row: the ranking of any
\* global query is empty
NoRankedUniversity ==
    \A id \in 1..Len(universities) :
        id \in DOMAIN university_stats => university_stats[id].total_reviews = 0

InsufficientData == Fallback("I don't have enough data yet to answer that.")

\* C21: a global request that missed the cache (or whose cache read failed)
\* and whose ranking came back empty is answered 200 with the
\* insufficient-data message, without a call of the answer generator and
\* without a write to either response cache
C21_EmptyRankingIsInsufficientData ==
    [][(/\ lastChat'.seq = lastChat.seq + 1
        /\ lastChat'.status # 400
        /\ ~lastChat'.key.universityId.present
        /\ ~lastChat'.cached
        /\ ~lastChat'.dbFailed
        /\ NoRankedUniversity) =>
           /\ lastChat'.status = 200
           /\ lastChat'.response = InsufficientData
           /\ ~lastChat'.generated
           /\ generations' = generations
           /\ global_chat_cache' = global_chat_cache
           /\ chat_cache' = chat_cache]_vars

\* A global request on a store without reviews was answered with the
\* insufficient-data message after its cache read had failed
C21_Witness ==
    /\ lastChat.seq > 0
    /\ ~lastChat.key.universityId.present
    /\ NoRankedUniversity
    /\ lastChat.status = 200
    /\ lastChat.response = InsufficientData
    /\ lastChat.cacheFault
    /\ generations = 0
    /\ global_chat_cache = <<>>

\* ------------------------------------------------------------------------
\* Properties of two interleaved addUniversity invocations
\* ------------------------------------------------------------------------
\* Both invocations ran their final candidate lookup on the same table, the
\* one neither of them had inserted into yet, and neither found a candidate
BothLookupsMissed ==
    /\ race # <<>>
    /\ \A p \in DOMAIN race : race[p].pc \in {"create", "done"} /\ race[p].c = 0
    /\ race[1].seen = race[2].seen

BothReturned == race # <<>> /\ \A p \in DOMAIN race : race[p].pc = "done"

\* C22: two concurrent addUniversity invocations for the same new name whose
\* candidate lookups both completed before either inserted both run the
\* creation transaction, and once both have returned each has created a row
\* of its own; the two rows carry the same normalized name whenever the two
\* invocations resolved the input to the same normalized name.  Nothing
\* rejects the second INSERT.
C22_DuplicateCreationRace ==
    (BothLookupsMissed /\ BothReturned) =>
        /\ \A p \in DOMAIN race :
              /\ race[p].outcome = "created"
              /\ race[p].id \in 1..Len(universities)
              /\ universities[race[p].id].normalized_name =
                     race[p].normalized.normalizedName
        /\ race[1].id # race[2].id
        /\ race[1].normalized.normalizedName = race[2].normalized.normalizedName
              => universities[race[1].id].normalized_name =
                     universities[race[2].id].normalized_name

\* Both invocations returned a created university, and the table holds two
\* rows of one normalized name
C22_Witness ==
    /\ BothLookupsMissed /\ BothReturned
    /\ race[1].outcome = "created" /\ race[2].outcome = "created"
    /\ race[1].id # race[2].id
    /\ universities[race[1].id].normalized_name =
           universities[race[2].id].normalized_name

\* ------------------------------------------------------------------------
\* Properties of the candidate choice among equal scores
\* ------------------------------------------------------------------------
\* Rows j and k of the table have the same similarity to the text q
SameScore(j, k, q) ==
    SimScore(universities[j], q).num * SimScore(universities[k], q).den =
        SimScore(universities[k], q).num * SimScore(universities[j], q).den

\* C23: the candidate a call resolved its input onto has at least as many
\* counted reviews as every other stored entity of exactly the same
\* similarity score for the looked-up name.
C23_TieBreakByFeedbackVolume ==
    \A i \in 1..Len(calls) :
        calls[i].isExisting =>
            \A j \in 1..calls[i].before :
                SameScore(j, calls[i].id, calls[i].resolved) =>
                    university_stats[j].total_reviews <=
                        university_stats[calls[i].id].total_reviews

\* The candidate taken has the greatest similarity score of the table the
\* call found, whatever the review counts
CandidateHasTopScore ==
    \A i \in 1..Len(calls) :
        calls[i].isExisting =>
            calls[i].id \in FirstSimilar(StoreBefore(i), calls[i].resolved,
                                         SIMILARITY_THRESHOLD_LOW)

\* A call was resolved onto the unreviewed one of two entities of equal score
TieTakenByUnreviewed ==
    \E i \in 1..Len(calls) :
        /\ calls[i].isExisting
        /\ \E j \in 1..calls[i].before :
              /\ SameScore(j, calls[i].id, calls[i].resolved)
              /\ university_stats[j].total_reviews >
                     university_stats[calls[i].id].total_reviews

\* ------------------------------------------------------------------------
\* Properties of the order of cache and reasoning service in PHASE 2
\* ------------------------------------------------------------------------
\* The unexpired rows the normalization cache holds for a submitted name
UnexpiredRows(name) ==
    {r \in ai_normalization_cache :
        r.input_hash = NameFacts[name].hash /\ r.expires_at > now}

\* C24: a call for an ambiguous input that missed PHASE 1 reads the
\* normalization cache first: when the cache holds an unexpired row for the
\* input and the read succeeds, the call is a cache hit, the reasoning
\* service is not invoked, the name looked up afterwards is the cached
\* normalized name and the cache is left as it was; the service is invoked
\* only by calls that missed the cache, and one call makes one invocation.
C24_CacheBeforeService ==
    [][Len(calls') = Len(calls) + 1 =>
         LET rec == calls'[Len(calls')]
             rows == UnexpiredRows(rec.input)
             phase2 == NameFacts[rec.input].ambiguous /\ rec.outcome # "phase1"
         IN  /\ (phase2 /\ rows # {} /\ lastResolve'.cacheReadOk) => rec.cacheHit
             /\ rec.cacheHit =>
                   /\ phase2 /\ rows # {}
                   /\ ~rec.serviceCalled
                   /\ rec.resolved \in {r.normalized_name : r \in rows}
                   /\ ai_normalization_cache' = ai_normalization_cache
             /\ rec.serviceCalled => (phase2 /\ ~rec.cacheHit)]_vars

\* A call was served from the cache with a normalized name that differs from
\* the deterministic one, without the service
C24_Witness ==
    \E i \in 1..Len(calls) :
        /\ calls[i].cacheHit /\ ~calls[i].serviceCalled
        /\ calls[i].resolved # NameFacts[calls[i].input].norm
        /\ calls[i].resolved \in
               {r.normalized_name : r \in ai_normalization_cache}

\* ------------------------------------------------------------------------
\* Properties of the digest samples
\* ------------------------------------------------------------------------
\* The approved reviews of university u rated 4 or more, and 2 or less
PositiveItems(u) == {r \in CurrentlyApproved(u) : r.rating >= 4}
NegativeItems(u) == {r \in CurrentlyApproved(u) : r.rating <= 2}

\* The place of item r among items: one more than the number of items that
\* have a better rating (higher when best is "high", lower when it is
\* "low"), or the same rating and a later creation
PlaceOf(r, items, best) ==
    1 + Cardinality({o \in items :
            \/ (best = "high" /\ o.rating > r.rating)
            \/ (best = "low" /\ o.rating < r.rating)
            \/ (o.rating = r.rating /\ o.created_at > r.created_at)})

\* The sample of the items: the first 80 characters of the comments of
\* places 1 to 3, in that order, or the sentinel when there is no item
SampleExpected(items, best, sentinel) ==
    IF items = {} THEN [sentinel |-> sentinel, parts |-> <<>>]
    ELSE [sentinel |-> "",
          parts |-> [i \in 1..(IF Cardinality(items) > 3 THEN 3
                               ELSE Cardinality(items)) |->
                        LEFT((CHOOSE r \in items :
                                 PlaceOf(r, items, best) = i).comment, 80)]]

\* C25: a recomputed digest holds as positive sample the comments of at most
\* 3 approved reviews of the university rated 4 or more, by rating
\* descending then newest first, and as negative sample those of at most 3
\* approved reviews rated 2 or less, by rating ascending then newest first;
\* a sample without a qualifying review is its sentinel.
C25_DigestSamples ==
    \A u \in DOMAIN university_stats :
        LET digest == university_stats[u].sentiment_summary
        IN  digest.tone # "null" =>
              /\ digest.positivePhrases =
                     SampleExpected(PositiveItems(u), "high",
                                    "No positive reviews yet")
              /\ digest.negativePhrases =
                     SampleExpected(NegativeItems(u), "low",
                                    "No negative reviews yet")

\* The first university has more than 3 approved reviews rated 4 or more,
\* two of them of one rating, next to a pending review rated 5, and no
\* approved review rated 2 or less
C25_Witness ==
    /\ Cardinality(PositiveItems(1)) > 3
    /\ \E a, b \in PositiveItems(1) : a # b /\ a.rating = b.rating
    /\ \E r \in reviews : r.university_id = 1 /\ r.rating = 5
                          /\ r.moderation_status = "pending"
    /\ Len(university_stats[1].sentiment_summary.positivePhrases.parts) = 3
    /\ university_stats[1].sentiment_summary.negativePhrases.sentinel =
           "No negative reviews yet"

\* ------------------------------------------------------------------------
\* Properties of the stored normalized names
\* ------------------------------------------------------------------------
\* The text is what basicNormalize makes of itself
Canonical(text) == basicNormalize(text) = text

\* C26: the normalized_name of every university the resolution created is a
\* fixed point of basicNormalize, whether it was computed from the input,
\* returned by the reasoning service or read from the normalization cache.
C26_StoredNameCanonical ==
    \A i \in 1..Len(calls) :
        calls[i].outcome = "created" =>
            Canonical(universities[calls[i].id].normalized_name)

\* The same for the universities created from a name that neither the
\* service nor the cache supplied
DeterministicNameCanonical ==
    \A i \in 1..Len(calls) :
        (calls[i].outcome = "created" /\ ~calls[i].usedAI) =>
            Canonical(universities[calls[i].id].normalized_name)

\* A university was created under a name of the service that holds capitals
ServiceNameStoredAsIs ==
    \E i \in 1..Len(calls) :
        /\ calls[i].outcome = "created" /\ calls[i].usedAI
        /\ universities[calls[i].id].normalized_name = T_AlAkhawayn
        /\ basicNormalize(T_AlAkhawayn) = T_al_akhawayn

\* ------------------------------------------------------------------------
\* Properties of the overwrite of a normalization-cache row
\* ------------------------------------------------------------------------
\* The rows of the normalization cache for a submitted name, expired or not
RowsOf(cache, name) == {r \in cache : r.input_hash = NameFacts[name].hash}

\* C27: an addUniversity call that writes the normalization cache for an
\* input whose row exists leaves one row for the input, with the normalized
\* name the call resolved to, the display name it resolved to (the name of
\* the university when it created one) and an expiry 7 days ahead, and with
\* the location, the country and the input text the row had before; a call
\* served from the cache resolves to the normalized name of the row as it
\* is stored.
C27_OverwriteKeepsLocation ==
    [][Len(calls') = Len(calls) + 1 =>
         LET rec == calls'[Len(calls')]
             old == RowsOf(ai_normalization_cache, rec.input)
             new == RowsOf(ai_normalization_cache', rec.input)
         IN  /\ (old # {} /\ ai_normalization_cache' # ai_normalization_cache) =>
                   /\ Cardinality(new) = 1
                   /\ \A r \in old, w \in new :
                         /\ w.normalized_name = rec.resolved
                         /\ rec.outcome = "created" =>
                                w.display_name = universities'[rec.id].name
                         /\ w.expires_at = now + NORMALIZATION_TTL
                         /\ w.location = r.location
                         /\ w.country = r.country
                         /\ w.input_text = r.input_text
             /\ rec.cacheHit =>
                   \E r \in old : /\ r.expires_at > now
                                  /\ rec.resolved = r.normalized_name]_vars

\* A call was served the overwritten row of "AUI": the normalized name of
\* the later reply "al akhawayn" (whose location was Ifrane) with the
\* location Rabat of the first reply
C27_Witness ==
    \E i \in 1..Len(calls) :
        /\ calls[i].cacheHit /\ calls[i].input = T_AUI
        /\ calls[i].resolved = T_al_akhawayn
        /\ \E r \in RowsOf(ai_normalization_cache, T_AUI) :
              /\ r.normalized_name = T_al_akhawayn
              /\ r.display_name = T_AlAkhawaynUniversity
              /\ r.location = T_Rabat
              /\ r.expires_at = NORMALIZATION_TTL

\* ------------------------------------------------------------------------
\* Properties of the chat handler while the generation service fails
\* ------------------------------------------------------------------------
\* The message generateInsight and generateGlobalInsight return from their
\* catch blocks
Sorry == Fallback("Sorry, I'm having trouble right now. Try again later.")

\* The rows of the response caches a request key selects at time t
KeyRows(entityRows, globalRows, key, t) ==
    IF key.universityId.present
    THEN {r \in entityRows : /\ r.university_id = key.universityId.value
                             /\ r.query_hash = key.query_hash
                             /\ r.expires_at > t}
    ELSE {globalRows[j] : j \in
             {i \in 1..Len(globalRows) :
                 /\ globalRows[i].query_hash = key.query_hash
                 /\ RegionMatches(globalRows[i].region, key.region)
                 /\ globalRows[i].expires_at > t}}

\* What a step that answers a request does when the generator fails: the
\* failure message it returns is then in the cache under the key of the
\* request, to expire in 24 hours; and a request that finds an unexpired row
\* under its key returns the text of such a row without a generation
CachesFallback ==
    lastChat'.seq = lastChat.seq + 1 =>
        LET key == lastChat'.key
            before == KeyRows(chat_cache, global_chat_cache, key, now)
            after == KeyRows(chat_cache', global_chat_cache', key, now)
        IN  /\ (lastChat'.generated /\ lastChat'.response = Sorry) =>
                  /\ after # {}
                  /\ \A r \in after : /\ r.response_text = Sorry
                                      /\ r.expires_at = now + CHAT_TTL
            /\ before # {} =>
                  /\ lastChat'.cached
                  /\ lastChat'.response \in {r.response_text : r \in before}
                  /\ generations' = generations

\* C28: when the generator fails, the failure message is written to the
\* response cache, and every identical request of the next 24 hours is
\* served it as a cache hit without a generation.
C28_FallbackIsCached == [][CachesFallback]_vars

\* The same where the write of the cache takes effect: in the global cache,
\* and in the entity cache when chat_cache has the unique index
FallbackIsCachedWhereWritten ==
    [][(chat_cache_unique \/ ~lastChat'.key.universityId.present)
           => CachesFallback]_vars

\* A request was served the failure message from the cache, 12 hours after
\* the generator failed, without a second generation
FallbackServedFromCache ==
    /\ lastChat.cached /\ lastChat.response = Sorry
    /\ lastChat.status = 200
    /\ lastChat.at = CHAT_TTL \div 2
    /\ generations = 1

\* A request about the stored university was answered with the failure
\* message and chat_cache holds no row
FallbackNotCached ==
    /\ lastChat.generated /\ lastChat.status = 200 /\ lastChat.response = Sorry
    /\ lastChat.key.universityId.present
    /\ chat_cache = {}

\* ------------------------------------------------------------------------
\* Properties of the response caches under review mutations
\* ------------------------------------------------------------------------
\* C29: a step that inserts, updates or deletes a review recomputes the
\* stats row and the digest of the review's university by the row triggers
\* and changes no row of chat_cache or global_chat_cache; and a request that
\* finds an unexpired row under its key is answered with the text of that
\* row, whatever has happened to the reviews since the row was written.
C29_FeedbackLeavesCaches ==
    [][/\ reviews' # reviews =>
             /\ chat_cache' = chat_cache
             /\ global_chat_cache' = global_chat_cache
             /\ \E u \in 1..Len(universities) :
                   university_stats' =
                       ReviewTriggers(university_stats, reviews', u, now)
       /\ lastChat'.seq = lastChat.seq + 1 =>
             LET before == KeyRows(chat_cache, global_chat_cache,
                                   lastChat'.key, now)
             IN  before # {} =>
                    /\ lastChat'.cached
                    /\ lastChat'.response \in {r.response_text : r \in before}
                    /\ generations' = generations]_vars

\* A request about university 1 at hour 16 was served from the cache the
\* answer generated at hour 0, although the digest of the university was
\* recomputed at hour 8 after a mutation of its reviews
C29_Witness ==
    /\ lastChat.cached /\ lastChat.key.universityId.present
    /\ lastChat.at = 2 * (CHAT_TTL \div 3)
    /\ lastChat.response = GeneratedText(1)
    /\ \E r \in chat_cache : /\ r.response_text = GeneratedText(1)
                             /\ r.expires_at = CHAT_TTL
    /\ university_stats[1].sentiment_summary.lastUpdated = CHAT_TTL \div 3
    /\ university_stats[1].total_reviews > 0

\* ------------------------------------------------------------------------
\* Properties of two interleaved chat requests
\* ------------------------------------------------------------------------
\* The rows of chat_cache under the key of the two requests
FlightRows ==
    {r \in chat_cache : r.university_id = 1 /\ r.query_hash = QueryHash[T_dorms]}

\* Both requests read the cache before either wrote it
BothReadFirst ==
    /\ inflight # <<>>
    /\ \A p \in DOMAIN inflight : inflight[p].pc # "read" /\ ~inflight[p].cached

BothAnswered ==
    inflight # <<>> /\ \A p \in DOMAIN inflight : inflight[p].pc = "done"

\* C30: two concurrent requests with the same key that both read the cache
\* before either writes both miss and both invoke the generator; after both
\* complete, neither has failed, each has received its own text, and the
\* entity cache holds exactly one row for the key, with the answer of the
\* request that wrote last.
C30_ConcurrentIdenticalRequests ==
    (BothReadFirst /\ BothAnswered) =>
        /\ generations = 2
        /\ \A p \in DOMAIN inflight :
              inflight[p].status = 200 /\ inflight[p].response.kind = "text"
        /\ inflight[1].response # inflight[2].response
        /\ Cardinality(FlightRows) = 1
        /\ \A r \in FlightRows, p \in DOMAIN inflight :
              inflight[p].wrote = 2 => r.response_text = inflight[p].response

\* The same on a database that has the unique index of optimize_db.sql
LastWriterWinsWithIndex ==
    chat_cache_unique => C30_ConcurrentIdenticalRequests

\* Without the index neither request fails either, and both generate
NeitherRequestFails ==
    BothAnswered =>
        \A p \in DOMAIN inflight :
            /\ inflight[p].status = 200
            /\ ~inflight[p].cached => inflight[p].response.kind = "text"

\* Both requests generated, and the one row of the key holds the text of the
\* second writer, which is the text generated first
SecondWriterOverwrote ==
    /\ BothReadFirst /\ BothAnswered /\ chat_cache_unique
    /\ \E p \in DOMAIN inflight :
          /\ inflight[p].wrote = 2
          /\ inflight[p].response = GeneratedText(1)
          /\ \A r \in FlightRows : r.response_text = GeneratedText(1)
    /\ Cardinality(FlightRows) = 1

\* Both requests generated and were answered, and chat_cache holds no row
NeitherAnswerStored ==
    /\ BothReadFirst /\ BothAnswered /\ generations = 2
    /\ \A p \in DOMAIN inflight : inflight[p].status = 200
    /\ chat_cache = {}

====
